---- MODULE Spec2Model ----
(***************************************************************************)
(* Model of the animation scheduling and particle engine of mypet-tui      *)
(* (src/src/animation/{types,frame,loader,engine}.rs).                      *)
(*                                                                         *)
(* Time is in milliseconds.  The clock moves between calls, in steps of    *)
(* TickMs; every Instant::now() read within one call of request() or       *)
(* update() returns the same reading.  Option<T> is modelled as a sequence *)
(* of length zero (None) or one (Some(x)).  Rust's 0-based frame index i   *)
(* addresses the TLA+ sequence element i + 1.  The art and the colour of a *)
(* frame are not modelled: no operation of the engine reads them.          *)
(*                                                                         *)
(* The second part models the life simulation (src/src/{stats,pet,         *)
(* events}.rs): a StatValue, the Pet and the EventSystem, each with its    *)
(* own specification; the engine variables do not change in them, and the  *)
(* life variables do not change in the engine's specifications.            *)
(***************************************************************************)
EXTENDS Integers, Sequences, FiniteSets, TLC

VARIABLES
    current,      \* AnimationEngine.current : Option<ActiveAnimation>
    queue,        \* AnimationEngine.queue : VecDeque<AnimationRequest>
    particles,    \* AnimationEngine.particles : Vec<Particle>
    last_update,  \* AnimationEngine.last_update : Instant
    frame_cache,  \* AnimationEngine.frame_cache : FrameCache (kind -> frame sequence)
    aborted,      \* TRUE once a call has panicked (index out of range, overflow check)
    clock,        \* the reading of the monotonic clock (Instant::now())
    used,         \* history: request() or update() has been called at least once
    advances,     \* history: advance() calls on the current animation since its promotion
    promoted_at,  \* history: Some(T) when the current animation is a one-shot promoted at
                  \* clock reading T and request() has not been called since, else None
    last,         \* history: the last public call, with the engine as it was before it
    stat,         \* a StatValue (stats.rs)
    pet,          \* the Pet (pet.rs)
    events,       \* the EventSystem (events.rs)
    call,         \* history: the last call on stat, pet or events, and what it returned
    spent,        \* history: what has been used of the bounds of the life specifications
    log           \* history: every event triggered so far, the oldest first

engine_vars == <<current, queue, particles, last_update, frame_cache, aborted, used, advances,
                 promoted_at, last>>

life_vars == <<stat, pet, events, call, spent, log>>

vars == <<current, queue, particles, last_update, frame_cache, aborted, clock, used, advances,
          promoted_at, last, stat, pet, events, call, spent, log>>

-----------------------------------------------------------------------------
(* Bounds of the model *)

\* the clock stops after this many ticks
MaxTicks == 12
\* no request is accepted that would make the queue longer than this
MaxQueue == 2
\* the horizon and queue bound of the all-kinds specification
MaxTicksAll == 1
MaxQueueAll == 1
\* how many advance() calls in a row the cycle of a looping kind is followed through
MaxAdvances == 8
\* the horizon and the queue bound of the particle specification
MaxTicksParticles == 11
MaxQueueParticles == 1
\* add(), sub() and set() are given every AmountStep-th u8 value
AmountStep == 5
\* a run of the pet starts with at most this many ticks without a command
MaxQuietTicks == 200
\* and goes on with at most this many calls, commands and ticks
MaxPetCalls == 4
\* the length of a stall of the process, after which a tick comes late
StallMinutes == 15
\* a run of the event system has at most this many ticks
MaxEventTicks == 17
\* of which at most this many update the event system without an event
MaxMisses == 1

\* the horizon and the queue bound of the transition specification
MaxTicksTransition == 10
MaxQueueTransition == 1

\* the horizon and the queue bound of the overflow specification, which starts at most
\* MaxWrapsLeft wrap-arounds before the loop counter reaches u32::MAX
MaxTicksOverflow == 17
MaxQueueOverflow == 1
MaxWrapsLeft == 1

(* Program constants *)

\* the cadence at which App::update_animation drives update()
TickMs == 100
\* AnimationFrame::new default duration (the fallback frame keeps it)
DefaultFrameMs == 100
\* the fixed particle anchor of start_animation / update
BaseX == 10
BaseY == 10
\* a u32 (ActiveAnimation.loop_count, max_loops) is kept as two 16-bit halves, each
\* at most HalfMax = 2^16 - 1, so that u32::MAX is [hi |-> HalfMax, lo |-> HalfMax]
HalfMax == 65535

\* u8::MAX, the largest value of StatValue.value
U8Max == 255
\* StatValue::MIN, StatValue::MAX
StatMin == 0
StatMax == 100
\* the tick rate of the main loop
TickRateMs == 250
\* the period of stat decay and of the egg step in Pet::update
DecayMs == 5000
\* the ages, in minutes, at which update_life_stage moves on to Child, Teen and Adult
ChildMinutes == 5
TeenMinutes == 15
AdultMinutes == 30
\* EventSystem::new: event_cooldown and max_history
CooldownMs == 15000
MaxHistory == 10

\* AnimationPriority discriminants
Background == 0
Idle == 1
Mood == 2
Action == 3
Transition == 4
Critical == 5

-----------------------------------------------------------------------------
(* types.rs *)

IdleKinds == {"IdleNeutral", "IdleHappy", "IdleSad", "IdleSleeping"}
MoodKinds == {"MoodHappy", "MoodExcited", "MoodSad", "MoodAngry"}
ActionKinds == {"ActionEating", "ActionPlaying", "ActionCleaning", "ActionSleeping",
                "ActionMedicine"}
TransitionKinds == {"TransitionWakeUp", "TransitionFallAsleep", "TransitionEvolve",
                    "TransitionGetSick", "TransitionHeal", "TransitionDie"}
EffectKinds == {"EffectHearts", "EffectFood", "EffectSparkles", "EffectZzz", "EffectSweat"}

AnimationType == IdleKinds \cup MoodKinds \cup ActionKinds \cup TransitionKinds \cup EffectKinds

priority(k) ==
    IF k \in EffectKinds THEN Background
    ELSE IF k \in IdleKinds THEN Idle
    ELSE IF k \in MoodKinds THEN Mood
    ELSE IF k \in ActionKinds THEN Action
    ELSE Transition

\* is_infinite() that takes every Mood kind for a looping one
is_infinite_all_moods(k) == k \in IdleKinds \cup MoodKinds

is_infinite(k) ==
    k \in {"IdleNeutral", "IdleHappy", "IdleSad", "IdleSleeping", "MoodHappy", "MoodSad"}

-----------------------------------------------------------------------------
(* Option *)

None == <<>>
Some(x) == <<x>>
Unwrap(o) == o[1]

(* u32 *)

\* the u32 of value n, for n <= HalfMax
U32(n) == [hi |-> 0, lo |-> n]

\* a + 1 on u32: the wrapped sum, and whether the addition overflowed
U32Inc(a) ==
    IF a.lo < HalfMax THEN [val |-> [a EXCEPT !.lo = @ + 1], overflow |-> FALSE]
    ELSE IF a.hi < HalfMax THEN [val |-> [hi |-> a.hi + 1, lo |-> 0], overflow |-> FALSE]
    ELSE [val |-> U32(0), overflow |-> TRUE]

\* a >= b on u32
U32Ge(a, b) == a.hi > b.hi \/ (a.hi = b.hi /\ a.lo >= b.lo)

-----------------------------------------------------------------------------
(* frame.rs and loader.rs *)

\* AnimationFrame::new(art).with_duration(ms): no frame of the library declares particles
Frame(ms) == [duration |-> ms, particles |-> <<>>]

Durations(ds) == [i \in 1..Len(ds) |-> Frame(ds[i])]

fallback_frame == Frame(DefaultFrameMs)

\* the table built by FrameCache::load_builtin: the duration of every frame of every kind
load_builtin ==
    [IdleNeutral          |-> Durations(<<500, 200, 500>>),
     IdleHappy            |-> Durations(<<400, 200, 400>>),
     IdleSad              |-> Durations(<<600, 600>>),
     IdleSleeping         |-> Durations(<<800>>),
     ActionEating         |-> Durations(<<300, 300, 300, 300, 300>>),
     ActionPlaying        |-> Durations(<<200, 200, 200, 200, 200>>),
     ActionCleaning       |-> Durations(<<200, 200, 200, 200, 200>>),
     ActionSleeping       |-> Durations(<<400, 300, 300>>),
     ActionMedicine       |-> Durations(<<200, 200, 200, 400>>),
     TransitionWakeUp     |-> Durations(<<300, 300, 400>>),
     TransitionFallAsleep |-> Durations(<<300, 300, 400>>),
     TransitionEvolve     |-> Durations(<<500, 500, 1000, 1000>>),
     TransitionGetSick    |-> Durations(<<300, 300, 400>>),
     TransitionHeal       |-> Durations(<<300, 300, 400>>),
     TransitionDie        |-> Durations(<<500, 500, 1000>>),
     MoodHappy            |-> Durations(<<500, 500>>),
     MoodExcited          |-> Durations(<<150, 150>>),
     MoodSad              |-> Durations(<<600, 600>>),
     MoodAngry            |-> Durations(<<200, 200>>)]

\* FrameCache::new: the cache holds what load_builtin inserts
NewFrameCache == load_builtin

\* FrameCache::load: the cached sequence, or the single-frame fallback
load(cache, anim_type) ==
    IF anim_type \in DOMAIN cache
    THEN cache[anim_type]
    ELSE <<fallback_frame>>

\* Particle::new(spec, base_x, base_y); positions are kept in thousandths of a cell
NewParticle(spec, base_x, base_y, now) ==
    [spec |-> spec,
     x |-> (base_x + spec.x_offset) * 1000,
     y |-> (base_y + spec.y_offset) * 1000,
     birth_time |-> now]

\* Particle::update(dt): vx, vy are cells per second, dt is in milliseconds
ParticleUpdate(p, dt) ==
    [p EXCEPT !.x = @ + p.spec.vx * dt, !.y = @ + p.spec.vy * dt]

\* is_alive() with `<=` where the code has `<`: a particle whose age equals its
\* lifetime is kept
is_alive_inclusive(p, now) == now - p.birth_time <= p.spec.lifetime_ms

\* Particle::is_alive, evaluated at clock reading `now`
is_alive(p, now) == now - p.birth_time < p.spec.lifetime_ms

-----------------------------------------------------------------------------
(* engine.rs: ActiveAnimation *)

\* ActiveAnimation::new that does not read the clock: the first frame is taken to have
\* begun when the engine's clock started
NewActiveAnimation_stale_start(anim_type, frames, now) ==
    [anim_type |-> anim_type,
     frames |-> frames,
     current_frame |-> 0,
     frame_start |-> 0,
     loop_count |-> U32(0),
     max_loops |-> IF is_infinite(anim_type) THEN None ELSE Some(U32(1))]

\* ActiveAnimation::new
NewActiveAnimation(anim_type, frames, now) ==
    [anim_type |-> anim_type,
     frames |-> frames,
     current_frame |-> 0,
     frame_start |-> now,
     loop_count |-> U32(0),
     max_loops |-> IF is_infinite(anim_type) THEN None ELSE Some(U32(1))]

\* frames[current_frame] is in range (an out-of-range index panics)
InRange(anim) == anim.current_frame < Len(anim.frames)

\* ActiveAnimation::current_frame_ref
current_frame_ref(anim) == anim.frames[anim.current_frame + 1]

\* ActiveAnimation::should_advance
should_advance(anim, now) ==
    now - anim.frame_start >= anim.frames[anim.current_frame + 1].duration

\* usize::saturating_sub
saturating_sub(a, b) == IF a >= b THEN a - b ELSE 0

\* advance() without the clamp at completion: the index is left one past the end
advance_no_clamp(anim, now) ==
    LET next_frame == anim.current_frame + 1
        loops == U32Inc(anim.loop_count).val
    IN  IF next_frame >= Len(anim.frames)
        THEN IF anim.max_loops # None /\ U32Ge(loops, Unwrap(anim.max_loops))
             THEN [anim |-> [anim EXCEPT !.current_frame = next_frame,
                                         !.loop_count = loops,
                                         !.frame_start = now],
                   completed |-> TRUE,
                   overflow |-> U32Inc(anim.loop_count).overflow]
             ELSE [anim |-> [anim EXCEPT !.current_frame = 0,
                                         !.loop_count = loops,
                                         !.frame_start = now],
                   completed |-> FALSE,
                   overflow |-> U32Inc(anim.loop_count).overflow]
        ELSE [anim |-> [anim EXCEPT !.current_frame = next_frame,
                                    !.frame_start = now],
              completed |-> FALSE,
              overflow |-> FALSE]

\* advance() that takes a missing max_loops for one loop: every animation completes at
\* the end of its first pass
advance_all_finite(anim, now) ==
    LET next_frame == anim.current_frame + 1
        loops == U32Inc(anim.loop_count).val
    IN  IF next_frame >= Len(anim.frames)
        THEN [anim |-> [anim EXCEPT !.current_frame = saturating_sub(Len(anim.frames), 1),
                                    !.loop_count = loops,
                                    !.frame_start = now],
              completed |-> TRUE,
              overflow |-> U32Inc(anim.loop_count).overflow]
        ELSE [anim |-> [anim EXCEPT !.current_frame = next_frame,
                                    !.frame_start = now],
              completed |-> FALSE,
              overflow |-> FALSE]

\* advance() that compares the loop count with `>` where the code has `>=`: a one-shot
\* animation wraps once and completes at the end of its second pass
advance_completes_late(anim, now) ==
    LET next_frame == anim.current_frame + 1
        loops == U32Inc(anim.loop_count).val
    IN  IF next_frame >= Len(anim.frames)
        THEN IF anim.max_loops # None /\ U32Ge(loops, Unwrap(anim.max_loops))
                /\ loops # Unwrap(anim.max_loops)
             THEN [anim |-> [anim EXCEPT !.current_frame = saturating_sub(Len(anim.frames), 1),
                                         !.loop_count = loops,
                                         !.frame_start = now],
                   completed |-> TRUE,
                   overflow |-> U32Inc(anim.loop_count).overflow]
             ELSE [anim |-> [anim EXCEPT !.current_frame = 0,
                                         !.loop_count = loops,
                                         !.frame_start = now],
                   completed |-> FALSE,
                   overflow |-> U32Inc(anim.loop_count).overflow]
        ELSE [anim |-> [anim EXCEPT !.current_frame = next_frame,
                                    !.frame_start = now],
              completed |-> FALSE,
              overflow |-> FALSE]

\* advance() that resets the frame-start time on the plain step and on completion but
\* not on the wrap-around of a looping animation
advance_wrap_keeps_start(anim, now) ==
    LET next_frame == anim.current_frame + 1
    IN  IF next_frame >= Len(anim.frames)
        THEN LET loops == U32Inc(anim.loop_count).val
             IN  IF anim.max_loops # None /\ U32Ge(loops, Unwrap(anim.max_loops))
                 THEN [anim |-> [anim EXCEPT !.current_frame = saturating_sub(Len(anim.frames), 1),
                                             !.loop_count = loops,
                                             !.frame_start = now],
                       completed |-> TRUE,
                       overflow |-> FALSE]
                 ELSE [anim |-> [anim EXCEPT !.current_frame = 0, !.loop_count = loops],
                       completed |-> FALSE,
                       overflow |-> FALSE]
        ELSE [anim |-> [anim EXCEPT !.current_frame = next_frame,
                                    !.frame_start = now],
              completed |-> FALSE,
              overflow |-> FALSE]

\* ActiveAnimation::advance: the animation after the call, the returned flag, and
\* whether the u32 increment of loop_count overflowed (the counter is then wrapped,
\* as a build without overflow checks does)
advance(anim, now) ==
    LET next_frame == anim.current_frame + 1
    IN  IF next_frame >= Len(anim.frames)
        THEN LET overflow == U32Inc(anim.loop_count).overflow
                 loops == U32Inc(anim.loop_count).val
             IN  IF anim.max_loops # None /\ U32Ge(loops, Unwrap(anim.max_loops))
                 THEN [anim |-> [anim EXCEPT !.current_frame = saturating_sub(Len(anim.frames), 1),
                                             !.loop_count = loops,
                                             !.frame_start = now],
                       completed |-> TRUE,
                       overflow |-> overflow]
                 ELSE [anim |-> [anim EXCEPT !.current_frame = 0,
                                             !.loop_count = loops,
                                             !.frame_start = now],
                       completed |-> FALSE,
                       overflow |-> overflow]
        ELSE [anim |-> [anim EXCEPT !.current_frame = next_frame,
                                    !.frame_start = now],
              completed |-> FALSE,
              overflow |-> FALSE]

-----------------------------------------------------------------------------
(* engine.rs: AnimationEngine, as operators on the engine record               *)
(* [current, queue, particles, last_update, frame_cache, aborted]               *)

\* AnimationEngine::new
NewEngine(now) ==
    [current |-> None, queue |-> <<>>, particles |-> <<>>, last_update |-> now,
     frame_cache |-> NewFrameCache, aborted |-> FALSE]

\* AnimationRequest built at the top of request()
NewRequest(anim_type) ==
    [anim_type |-> anim_type,
     priority |-> priority(anim_type),
     interrupt_lower |-> priority(anim_type) >= Action]

\* the loop `for spec in &anim.current_frame_ref().particles { push(Particle::new(..)) }`
SpawnFrameParticles(e, anim, now) ==
    LET specs == current_frame_ref(anim).particles
    IN  [e EXCEPT !.particles =
            @ \o [i \in 1..Len(specs) |-> NewParticle(specs[i], BaseX, BaseY, now)]]

\* AnimationEngine::start_animation
start_animation(e, request, now) ==
    LET anim == NewActiveAnimation(request.anim_type,
                                   load(e.frame_cache, request.anim_type), now)
        e1 == [e EXCEPT !.current = Some(anim)]
    IN  IF InRange(anim)
        THEN SpawnFrameParticles(e1, anim, now)
        ELSE [e1 EXCEPT !.aborted = TRUE]

\* interrupt_current() that puts the discarded animation's kind back at the front of
\* the queue
interrupt_current_requeues(e) ==
    [e EXCEPT !.current = None,
              !.queue = IF e.current = None THEN @
                        ELSE <<NewRequest(Unwrap(e.current).anim_type)>> \o @]

\* AnimationEngine::interrupt_current
interrupt_current(e) == [e EXCEPT !.current = None]

\* request() with the may-preempt flag load-bearing: a request below Action never
\* replaces the current animation, it is enqueued
request_flag_gates(e, anim_type, now) ==
    LET req == NewRequest(anim_type)
    IN  IF e.current # None
        THEN IF req.interrupt_lower
                /\ req.priority > priority(Unwrap(e.current).anim_type)
             THEN start_animation(interrupt_current(e), req, now)
             ELSE [e EXCEPT !.queue = Append(@, req)]
        ELSE start_animation(e, req, now)

\* request() in which equal priority preempts too (>= for >, < for <=)
request_equal_preempts(e, anim_type, now) ==
    LET req == NewRequest(anim_type)
    IN  IF e.current # None
        THEN IF req.priority < priority(Unwrap(e.current).anim_type)
             THEN [e EXCEPT !.queue = Append(@, req)]
             ELSE start_animation(interrupt_current(e), req, now)
        ELSE start_animation(e, req, now)

\* request() that enqueues whenever it does not preempt, also on an engine with no
\* current animation
request_always_enqueues(e, anim_type, now) ==
    LET req == NewRequest(anim_type)
    IN  IF e.current # None /\ req.priority > priority(Unwrap(e.current).anim_type)
        THEN start_animation(interrupt_current(e), req, now)
        ELSE [e EXCEPT !.queue = Append(@, req)]

\* AnimationEngine::request
request(e, anim_type, now) ==
    LET req == NewRequest(anim_type)
    IN  IF e.current # None
        THEN IF req.interrupt_lower
                /\ req.priority > priority(Unwrap(e.current).anim_type)
             THEN start_animation(interrupt_current(e), req, now)
             ELSE IF req.priority <= priority(Unwrap(e.current).anim_type)
                  THEN [e EXCEPT !.queue = Append(@, req)]
                  ELSE start_animation(e, req, now)
        ELSE start_animation(e, req, now)

\* start_next_from_queue() without the default idle request
start_next_no_idle(e, now) ==
    IF e.current = None /\ e.queue # <<>>
    THEN start_animation([e EXCEPT !.queue = Tail(@)], Head(e.queue), now)
    ELSE e

\* start_next_from_queue() that takes the waiting request of highest priority (the
\* first of them) instead of the front
start_next_by_priority(e, now) ==
    LET best == CHOOSE i \in 1..Len(e.queue) :
                    /\ \A j \in 1..Len(e.queue) : e.queue[j].priority <= e.queue[i].priority
                    /\ \A j \in 1..(i - 1) : e.queue[j].priority < e.queue[i].priority
        rest == [j \in 1..(Len(e.queue) - 1) |->
                    IF j < best THEN e.queue[j] ELSE e.queue[j + 1]]
        e1 == IF e.current = None /\ e.queue # <<>>
              THEN start_animation([e EXCEPT !.queue = rest], e.queue[best], now)
              ELSE e
    IN  IF e1.current = None /\ ~e1.aborted
        THEN request(e1, "IdleNeutral", now)
        ELSE e1

\* start_next_from_queue() that promotes the front of the queue and drops the requests
\* behind it
start_next_drops_rest(e, now) ==
    LET e1 == IF e.current = None /\ e.queue # <<>>
              THEN start_animation([e EXCEPT !.queue = <<>>], Head(e.queue), now)
              ELSE e
    IN  IF e1.current = None /\ ~e1.aborted
        THEN request(e1, "IdleNeutral", now)
        ELSE e1

\* AnimationEngine::start_next_from_queue
start_next_from_queue(e, now) ==
    LET e1 == IF e.current = None /\ e.queue # <<>>
              THEN start_animation([e EXCEPT !.queue = Tail(@)], Head(e.queue), now)
              ELSE e
    IN  IF e1.current = None /\ ~e1.aborted
        THEN request(e1, "IdleNeutral", now)
        ELSE e1

\* update_particles() whose pruning does not keep the order: the survivors come out
\* reversed
update_particles_unordered(e, dt, now) ==
    LET moved == [i \in 1..Len(e.particles) |-> ParticleUpdate(e.particles[i], dt)]
        kept == SelectSeq(moved, LAMBDA p : is_alive(p, now))
    IN  [e EXCEPT !.particles = [i \in 1..Len(kept) |-> kept[Len(kept) + 1 - i]]]

\* AnimationEngine::update_particles
update_particles(e, dt, now) ==
    LET moved == [i \in 1..Len(e.particles) |-> ParticleUpdate(e.particles[i], dt)]
    IN  [e EXCEPT !.particles = SelectSeq(moved, LAMBDA p : is_alive(p, now))]

\* update() that catches up: when the time elapsed also covers the next frame, it
\* advances a second time in the same call
UpdateAnimation_catch_up(e, now, overflow_checks) ==
    IF e.current # None
    THEN LET anim == Unwrap(e.current)
         IN  IF should_advance(anim, now)
             THEN LET r1 == advance(anim, now)
                      late == now - anim.frame_start
                                >= current_frame_ref(anim).duration
                                   + current_frame_ref(r1.anim).duration
                      r == IF ~r1.completed /\ late THEN advance(r1.anim, now) ELSE r1
                      e1 == [e EXCEPT !.current = Some(r.anim)]
                  IN  IF r.completed
                      THEN start_next_from_queue([e1 EXCEPT !.current = None], now)
                      ELSE e1
             ELSE e
    ELSE start_next_from_queue(e, now)

\* update() in which a looping animation yields to a waiting request: with the queue
\* not empty it is dropped and the front of the queue is promoted
UpdateAnimation_looping_yields(e, now, overflow_checks) ==
    IF e.current # None
    THEN LET anim == Unwrap(e.current)
         IN  IF anim.max_loops = None /\ e.queue # <<>>
             THEN start_next_from_queue([e EXCEPT !.current = None], now)
             ELSE IF should_advance(anim, now)
                  THEN LET r == advance(anim, now)
                           e2 == SpawnFrameParticles([e EXCEPT !.current = Some(r.anim)],
                                                     r.anim, now)
                       IN  IF r.completed
                           THEN start_next_from_queue([e2 EXCEPT !.current = None], now)
                           ELSE e2
                  ELSE e
    ELSE start_next_from_queue(e, now)

\* update() that spawns particles once per animation: an advance spawns nothing, only
\* start_animation() does
UpdateAnimation_spawn_at_start(e, now, overflow_checks) ==
    IF e.current # None
    THEN LET anim == Unwrap(e.current)
         IN  IF should_advance(anim, now)
             THEN LET r == advance(anim, now)
                      e1 == [e EXCEPT !.current = Some(r.anim)]
                  IN  IF r.completed
                      THEN start_next_from_queue([e1 EXCEPT !.current = None], now)
                      ELSE e1
             ELSE e
    ELSE start_next_from_queue(e, now)

\* update() that clears a completed animation before the spawn loop: the completing
\* advance spawns nothing, the promotion that follows spawns its frame 0
UpdateAnimation_clear_before_spawn(e, now, overflow_checks) ==
    IF e.current # None
    THEN LET anim == Unwrap(e.current)
         IN  IF should_advance(anim, now)
             THEN LET r == advance(anim, now)
                      e1 == [e EXCEPT !.current = Some(r.anim)]
                  IN  IF r.completed
                      THEN start_next_from_queue([e1 EXCEPT !.current = None], now)
                      ELSE SpawnFrameParticles(e1, r.anim, now)
             ELSE e
    ELSE start_next_from_queue(e, now)

\* update() that restarts the clock of a frame that is not yet due: frame_start is set
\* to the time of the call
UpdateAnimation_restarts_frame(e, now, overflow_checks) ==
    IF e.current # None
    THEN LET anim == Unwrap(e.current)
         IN  IF should_advance(anim, now)
             THEN LET r == advance(anim, now)
                      e2 == SpawnFrameParticles([e EXCEPT !.current = Some(r.anim)],
                                                r.anim, now)
                  IN  IF r.completed
                      THEN start_next_from_queue([e2 EXCEPT !.current = None], now)
                      ELSE e2
             ELSE [e EXCEPT !.current = Some([anim EXCEPT !.frame_start = now])]
    ELSE start_next_from_queue(e, now)

\* the `if let Some(ref mut anim) = self.current { .. } else { .. }` of update();
\* overflow_checks is the build profile: with it the overflowing `loop_count += 1` panics
UpdateAnimation(e, now, overflow_checks) ==
    IF e.current # None
    THEN LET anim == Unwrap(e.current)
         IN  IF ~InRange(anim)
             THEN [e EXCEPT !.aborted = TRUE]
             ELSE IF should_advance(anim, now)
                  THEN LET r == advance(anim, now)
                           e1 == [e EXCEPT !.current = Some(r.anim)]
                       IN  IF ~InRange(r.anim) \/ (r.overflow /\ overflow_checks)
                           THEN [e1 EXCEPT !.aborted = TRUE]
                           ELSE LET e2 == SpawnFrameParticles(e1, r.anim, now)
                                IN  IF r.completed
                                    THEN start_next_from_queue([e2 EXCEPT !.current = None], now)
                                    ELSE e2
                  ELSE e
    ELSE start_next_from_queue(e, now)

\* AnimationEngine::update
update(e, now, overflow_checks) ==
    LET dt == now - e.last_update
        e1 == UpdateAnimation([e EXCEPT !.last_update = now], now, overflow_checks)
    IN  IF e1.aborted THEN e1 ELSE update_particles(e1, dt, now)

\* AnimationEngine::particles() written to hand the list over and leave it empty, as
\* std::mem::take would
particles_taken(e) == [engine |-> [e EXCEPT !.particles = <<>>], value |-> e.particles]

\* The read accessors take `&self`: each yields the engine after the call and the value
\* returned.  current_art() and current_color() read the current frame through
\* current_frame_ref(), which panics on an index out of range; the frame read stands
\* for its art lines and its colour override.
current_art(e) ==
    IF e.current = None THEN [engine |-> e, value |-> None]
    ELSE IF InRange(Unwrap(e.current))
         THEN [engine |-> e, value |-> Some(current_frame_ref(Unwrap(e.current)))]
         ELSE [engine |-> [e EXCEPT !.aborted = TRUE], value |-> None]

current_type(e) ==
    [engine |-> e,
     value |-> IF e.current = None THEN None ELSE Some(Unwrap(e.current).anim_type)]

particles_of(e) == [engine |-> e, value |-> e.particles]

current_color(e) ==
    IF e.current = None THEN [engine |-> e, value |-> None]
    ELSE IF InRange(Unwrap(e.current))
         THEN [engine |-> e, value |-> Some(current_frame_ref(Unwrap(e.current)))]
         ELSE [engine |-> [e EXCEPT !.aborted = TRUE], value |-> None]

\* what the renderer does in one pass: the four accessors, one after the other
read_all(e) ==
    LET e1 == current_art(e).engine
        e2 == current_type(e1).engine
        e3 == particles_of(e2).engine
    IN  current_color(e3).engine

-----------------------------------------------------------------------------
(* stats.rs: StatValue { value: u8 } as the record [value |-> n], and Stats *)

\* u8::saturating_add
u8_saturating_add(a, b) == IF a + b > U8Max THEN U8Max ELSE a + b

\* u8::saturating_sub
u8_saturating_sub(a, b) == IF a >= b THEN a - b ELSE 0

\* u8::clamp
u8_clamp(v, lo, hi) == IF v < lo THEN lo ELSE IF v > hi THEN hi ELSE v

\* StatValue::new
StatValue_new(value) == [value |-> u8_clamp(value, StatMin, StatMax)]

\* StatValue::add written with the wrapping `+` of a build without overflow checks
StatValue_add_wrapping(s, amount) ==
    [s EXCEPT !.value = IF (@ + amount) % (U8Max + 1) < StatMax
                        THEN (@ + amount) % (U8Max + 1) ELSE StatMax]

\* StatValue::add
StatValue_add(s, amount) ==
    [s EXCEPT !.value = IF u8_saturating_add(@, amount) < StatMax
                        THEN u8_saturating_add(@, amount) ELSE StatMax]

\* StatValue::sub
StatValue_sub(s, amount) == [s EXCEPT !.value = u8_saturating_sub(@, amount)]

\* StatValue::set
StatValue_set(s, value) == [s EXCEPT !.value = u8_clamp(value, StatMin, StatMax)]

\* StatValue::is_max, StatValue::is_min
is_max(s) == s.value = StatMax
is_min(s) == s.value = StatMin

\* Stats::new
NewStats ==
    [hunger |-> StatValue_new(50), happiness |-> StatValue_new(50),
     energy |-> StatValue_new(50), health |-> StatValue_new(100),
     hygiene |-> StatValue_new(50)]

\* Stats::is_starving, is_depressed, is_filthy
is_starving(stats) == is_min(stats.hunger)
is_depressed(stats) == is_min(stats.happiness)
is_filthy(stats) == is_min(stats.hygiene)

\* Stats::decay
decay(stats) ==
    LET s1 == [stats EXCEPT !.hunger = StatValue_sub(@, 1),
                            !.happiness = StatValue_sub(@, 1),
                            !.energy = StatValue_sub(@, 1),
                            !.hygiene = StatValue_sub(@, 1)]
    IN  IF is_starving(s1) \/ is_depressed(s1) \/ is_filthy(s1)
        THEN [s1 EXCEPT !.health = StatValue_sub(@, 1)]
        ELSE s1

-----------------------------------------------------------------------------
(* pet.rs: the Pet as the record                                              *)
(* [name, stage, state, stats, birth_time, age_seconds, last_decay, egg_stats] *)
(* PetState is the record [kind, since]; `since` is None for Normal and Dead.  *)
(* A method returning Result<(), &str> yields [pet, ok].                       *)

\* LifeStage, in the order of the enumeration
LifeStage == <<"Egg", "Baby", "Child", "Teen", "Adult">>

\* the position of a stage in the enumeration (its discriminant)
StageRank(stage) == CHOOSE i \in 0..4 : LifeStage[i + 1] = stage

\* PetState values
Normal == [kind |-> "Normal", since |-> None]
Sleeping(since) == [kind |-> "Sleeping", since |-> Some(since)]
Sick(since) == [kind |-> "Sick", since |-> Some(since)]
Dead == [kind |-> "Dead", since |-> None]

\* PetState::can_act, is_sleeping, is_alive
can_act(state) == state.kind = "Normal" \/ state.kind = "Sick"
is_sleeping(state) == state.kind = "Sleeping"
state_is_alive(state) == state.kind # "Dead"

\* Duration::as_secs of a duration in milliseconds
as_secs(ms) == ms \div 1000

\* EggStats::new
NewEggStats ==
    [incubation_progress |-> StatValue_new(0), warmth_level |-> StatValue_new(20),
     health |-> StatValue_new(100), is_dead |-> FALSE]

\* Pet::new
NewPet(name, now) ==
    [name |-> name, stage |-> "Egg", state |-> Normal, stats |-> NewStats,
     birth_time |-> now, age_seconds |-> 0, last_decay |-> now,
     egg_stats |-> Some(NewEggStats)]

\* update_life_stage() that catches up: it moves straight to the stage the age calls
\* for
update_life_stage_catch_up(p) ==
    IF p.stage = "Egg" THEN p
    ELSE LET age_minutes == p.age_seconds \div 60
         IN  [p EXCEPT !.stage = IF age_minutes >= AdultMinutes THEN "Adult"
                                 ELSE IF age_minutes >= TeenMinutes THEN "Teen"
                                 ELSE IF age_minutes >= ChildMinutes THEN "Child"
                                 ELSE "Baby"]

\* Pet::update_life_stage
update_life_stage(p) ==
    IF p.stage = "Egg" THEN p
    ELSE LET age_minutes == p.age_seconds \div 60
         IN  IF p.stage = "Baby" /\ age_minutes >= ChildMinutes
             THEN [p EXCEPT !.stage = "Child"]
             ELSE IF p.stage = "Child" /\ age_minutes >= TeenMinutes
                  THEN [p EXCEPT !.stage = "Teen"]
                  ELSE IF p.stage = "Teen" /\ age_minutes >= AdultMinutes
                       THEN [p EXCEPT !.stage = "Adult"]
                       ELSE p

\* Pet::hatch_egg
hatch_egg(p) ==
    LET warmth == Unwrap(p.egg_stats).warmth_level.value
        stats == IF warmth >= 70
                 THEN [health |-> StatValue_add(p.stats.health, 20),
                       happiness |-> StatValue_add(p.stats.happiness, 20),
                       energy |-> StatValue_add(p.stats.energy, 20),
                       hunger |-> StatValue_add(p.stats.hunger, 20),
                       hygiene |-> StatValue_add(p.stats.hygiene, 20)]
                 ELSE IF warmth < 40
                      THEN [p.stats EXCEPT !.health = StatValue_sub(@, 10),
                                           !.happiness = StatValue_sub(@, 10),
                                           !.energy = StatValue_sub(@, 10)]
                      ELSE p.stats
    IN  [p EXCEPT !.stats = stats, !.stage = "Baby", !.egg_stats = None]

\* Pet::update_egg
update_egg(p, now) ==
    IF p.egg_stats # None /\ now - p.last_decay >= DecayMs
    THEN LET egg == Unwrap(p.egg_stats)
             warmth == StatValue_sub(egg.warmth_level, 3)
             health == IF warmth.value < 30 THEN StatValue_sub(egg.health, 10)
                       ELSE StatValue_add(egg.health, 5)
             egg1 == [incubation_progress |-> StatValue_add(egg.incubation_progress, 17),
                      warmth_level |-> warmth,
                      health |-> health,
                      is_dead |-> egg.is_dead \/ health.value = 0]
             p1 == [p EXCEPT !.last_decay = now, !.egg_stats = Some(egg1)]
         IN  IF is_max(egg1.incubation_progress) /\ ~egg1.is_dead
             THEN hatch_egg(p1)
             ELSE p1
    ELSE p

\* Pet::update
Pet_update(p, delta_time, now) ==
    LET p1 == [p EXCEPT !.age_seconds = @ + as_secs(delta_time)]
    IN  IF p1.stage = "Egg" THEN update_egg(p1, now)
        ELSE IF ~state_is_alive(p1.state) THEN p1
        ELSE LET p2 == update_life_stage(p1)
             IN  IF now - p2.last_decay >= DecayMs
                 THEN LET stats == decay(p2.stats)
                          state1 == IF stats.health.value = 0 THEN Dead ELSE p2.state
                          state2 == IF stats.hygiene.value < 10 /\ state1.kind = "Normal"
                                    THEN Sick(now) ELSE state1
                      IN  [p2 EXCEPT !.stats = stats, !.last_decay = now, !.state = state2]
                 ELSE p2

\* Pet::warm
warm(p) ==
    IF p.stage # "Egg" THEN [pet |-> p, ok |-> FALSE]
    ELSE IF p.egg_stats = None THEN [pet |-> p, ok |-> TRUE]
    ELSE LET egg == Unwrap(p.egg_stats)
         IN  IF egg.warmth_level.value >= 100 THEN [pet |-> p, ok |-> FALSE]
             ELSE [pet |-> [p EXCEPT !.egg_stats =
                               Some([egg EXCEPT !.warmth_level = StatValue_add(@, 10),
                                                !.health = StatValue_add(@, 5)])],
                   ok |-> TRUE]

\* feed() that wakes a sleeping pet to feed it
feed_wakes(p) ==
    IF p.stage = "Egg" \/ p.state.kind = "Dead" THEN [pet |-> p, ok |-> FALSE]
    ELSE [pet |-> [p EXCEPT !.state = IF @.kind = "Sleeping" THEN Normal ELSE @,
                            !.stats.hunger = StatValue_add(@, 25),
                            !.stats.energy = StatValue_sub(@, 5)],
          ok |-> TRUE]

\* Pet::feed
feed(p) ==
    IF p.stage = "Egg" THEN [pet |-> p, ok |-> FALSE]
    ELSE IF ~can_act(p.state) THEN [pet |-> p, ok |-> FALSE]
    ELSE [pet |-> [p EXCEPT !.stats.hunger = StatValue_add(@, 25),
                            !.stats.energy = StatValue_sub(@, 5)],
          ok |-> TRUE]

\* Pet::play
play(p) ==
    IF p.stage = "Egg" THEN [pet |-> p, ok |-> FALSE]
    ELSE IF ~can_act(p.state) THEN [pet |-> p, ok |-> FALSE]
    ELSE IF p.stage = "Baby"
         THEN IF p.stats.energy.value < 30 THEN [pet |-> p, ok |-> FALSE]
              ELSE [pet |-> [p EXCEPT !.stats.happiness = StatValue_add(@, 15),
                                      !.stats.energy = StatValue_sub(@, 20),
                                      !.stats.hunger = StatValue_sub(@, 10)],
                    ok |-> TRUE]
         ELSE IF p.stats.energy.value < 20 THEN [pet |-> p, ok |-> FALSE]
              ELSE [pet |-> [p EXCEPT !.stats.happiness = StatValue_add(@, 20),
                                      !.stats.energy = StatValue_sub(@, 15),
                                      !.stats.hunger = StatValue_sub(@, 10)],
                    ok |-> TRUE]

\* Pet::clean
clean(p) ==
    IF p.stage = "Egg" THEN [pet |-> p, ok |-> FALSE]
    ELSE IF ~can_act(p.state) THEN [pet |-> p, ok |-> FALSE]
    ELSE [pet |-> [p EXCEPT !.stats.hygiene = StatValue_new(100),
                            !.state = IF @.kind = "Sick" THEN Normal ELSE @],
          ok |-> TRUE]

\* Pet::sleep
sleep(p, now) ==
    IF p.stage = "Egg" THEN [pet |-> p, ok |-> FALSE]
    ELSE IF ~state_is_alive(p.state) THEN [pet |-> p, ok |-> FALSE]
    ELSE IF p.state.kind = "Sleeping" THEN [pet |-> p, ok |-> FALSE]
    ELSE [pet |-> [p EXCEPT !.state = Sleeping(now)], ok |-> TRUE]

\* Pet::wake.  The gain is computed in f32 and cast to u8, which truncates:
\* min(secs / 30 * 100, 100), and for a Baby min(gain * 1.5, 100).
wake(p, now) ==
    IF p.state.kind = "Sleeping"
    THEN LET sleep_duration == as_secs(now - Unwrap(p.state.since))
             scaled == (sleep_duration * 100) \div 30
             base_gain == IF scaled < 100 THEN scaled ELSE 100
             baby_gain == IF (base_gain * 3) \div 2 < 100 THEN (base_gain * 3) \div 2 ELSE 100
             energy_gain == IF p.stage = "Baby" THEN baby_gain ELSE base_gain
         IN  [pet |-> [p EXCEPT !.stats.energy = StatValue_add(@, energy_gain),
                                !.state = Normal],
              ok |-> TRUE]
    ELSE [pet |-> p, ok |-> FALSE]

\* Pet::give_medicine
give_medicine(p) ==
    IF p.state.kind = "Sick"
    THEN [pet |-> [p EXCEPT !.state = Normal, !.stats.health = StatValue_add(@, 20)],
          ok |-> TRUE]
    ELSE [pet |-> p, ok |-> FALSE]

-----------------------------------------------------------------------------
(* events.rs: the EventSystem as the record                                   *)
(* [last_event_time, event_cooldown, event_history, max_history, pending_event] *)

\* EventType, without Evolved, which select_event_type() never yields
EventTypes ==
    {"MadeMess", "FoundTreasure", "BadDream", "LearnedTrick", "HappyMoment", "Lonely",
     "AskingForFood"}

\* EventType::message: the pet's name followed by the text of the event type
message(event_type, pet_name) ==
    <<pet_name,
      CASE event_type = "MadeMess" -> " made a mess! (-20 hygiene)"
        [] event_type = "FoundTreasure" -> " found a shiny object! (+10 happiness)"
        [] event_type = "BadDream" -> " had a bad dream... (-10 happiness)"
        [] event_type = "LearnedTrick" -> " learned a new trick! (+15 happiness)"
        [] event_type = "HappyMoment" -> " is having a wonderful time! (+20 happiness)"
        [] event_type = "Lonely" -> " seems lonely..."
        [] event_type = "AskingForFood" -> " is looking at you with hungry eyes...">>

\* EventSystem::new
NewEventSystem(now) ==
    [last_event_time |-> now, event_cooldown |-> CooldownMs, event_history |-> <<>>,
     max_history |-> MaxHistory, pending_event |-> None]

\* the event types select_event_type() puts in possible_events for pet p
possible_events(p) ==
    {t \in EventTypes :
        \/ t = "MadeMess" /\ p.stats.hygiene.value > 50 /\ p.stage # "Egg"
        \/ t = "FoundTreasure" /\ p.stats.happiness.value > 40
        \/ t = "BadDream" /\ p.stage = "Baby" /\ p.stats.happiness.value < 60
        \/ t = "LearnedTrick" /\ p.stage \in {"Child", "Teen", "Adult"}
              /\ p.stats.happiness.value > 70
        \/ t = "HappyMoment" /\ p.stats.happiness.value > 60
              /\ p.stats.health.value > 70 /\ p.stats.energy.value > 50
        \/ t = "Lonely" /\ p.stats.happiness.value < 30
        \/ t = "AskingForFood" /\ p.stats.hunger.value < 30 /\ p.stage # "Egg"}

\* EventSystem::select_event_type: what it can return for pet p, as a set of
\* Option<EventType>.  The weighted draw can pick any candidate; with two or more
\* candidates the loop of f32 subtractions can also run out and return None.
select_event_type(p) ==
    IF possible_events(p) = {} THEN {None}
    ELSE {Some(t) : t \in possible_events(p)}
            \cup (IF Cardinality(possible_events(p)) >= 2 THEN {None} ELSE {})

\* EventSystem::apply_event_effects
apply_event_effects(event_type, p) ==
    CASE event_type = "MadeMess" -> [p EXCEPT !.stats.hygiene = StatValue_sub(@, 20)]
      [] event_type = "FoundTreasure" -> [p EXCEPT !.stats.happiness = StatValue_add(@, 10)]
      [] event_type = "BadDream" ->
            [p EXCEPT !.stats.happiness = StatValue_sub(@, 10),
                      !.state = IF is_sleeping(@) THEN Normal ELSE @]
      [] event_type = "LearnedTrick" -> [p EXCEPT !.stats.happiness = StatValue_add(@, 15)]
      [] event_type = "HappyMoment" ->
            [p EXCEPT !.stats.happiness = StatValue_add(@, 20),
                      !.stats.energy = StatValue_add(@, 5)]
      [] event_type = "Lonely" -> [p EXCEPT !.stats.happiness = StatValue_sub(@, 5)]
      [] OTHER -> p

\* try_trigger_event() that drops the newest entry when the history is full
try_trigger_event_drops_newest(es, p, choice, now) ==
    IF choice = None THEN [events |-> es, pet |-> p]
    ELSE LET event_type == Unwrap(choice)
             p1 == apply_event_effects(event_type, p)
             event == [event_type |-> event_type, timestamp |-> now,
                       message |-> message(event_type, p1.name)]
             pushed == Append(es.event_history, event)
             history == IF Len(pushed) > es.max_history
                        THEN SubSeq(pushed, 1, Len(pushed) - 1) ELSE pushed
         IN  [events |-> [es EXCEPT !.event_history = history,
                                    !.pending_event = Some(event),
                                    !.last_event_time = now],
              pet |-> p1]

\* EventSystem::try_trigger_event; choice is what select_event_type() returned
try_trigger_event(es, p, choice, now) ==
    IF choice = None THEN [events |-> es, pet |-> p]
    ELSE LET event_type == Unwrap(choice)
             p1 == apply_event_effects(event_type, p)
             event == [event_type |-> event_type, timestamp |-> now,
                       message |-> message(event_type, p1.name)]
             pushed == Append(es.event_history, event)
             history == IF Len(pushed) > es.max_history THEN Tail(pushed) ELSE pushed
         IN  [events |-> [es EXCEPT !.event_history = history,
                                    !.pending_event = Some(event),
                                    !.last_event_time = now],
              pet |-> p1]

\* EventSystem::update; roll is whether random_float() < 0.05
EventSystem_update(es, p, roll, choice, now) ==
    IF now - es.last_event_time < es.event_cooldown THEN [events |-> es, pet |-> p]
    ELSE IF ~state_is_alive(p.state) THEN [events |-> es, pet |-> p]
    ELSE IF is_sleeping(p.state) THEN [events |-> es, pet |-> p]
    ELSE IF roll THEN try_trigger_event(es, p, choice, now)
    ELSE [events |-> es, pet |-> p]

-----------------------------------------------------------------------------
(* The engine and its drivers as a state machine *)

\* the engine record of the current state
Engine ==
    [current |-> current, queue |-> queue, particles |-> particles,
     last_update |-> last_update, frame_cache |-> frame_cache, aborted |-> aborted]

\* the engine variables of the next state are the fields of e
SetEngine(e) ==
    /\ current' = e.current
    /\ queue' = e.queue
    /\ particles' = e.particles
    /\ last_update' = e.last_update
    /\ frame_cache' = e.frame_cache
    /\ aborted' = e.aborted

\* the kinds the drivers request in the main specification: every priority level
\* below Transition, looping and one-shot, with one to four frames
ReqKinds ==
    {"EffectHearts", "IdleNeutral", "MoodHappy", "MoodExcited", "ActionMedicine"}

\* what `last` records of a call: the operation and its argument, and of the engine
\* before the call the current kind, frame index and frame-start time and the queue
\* length; whether update() called advance(), and what advance() returned
NoCall ==
    [op |-> "none", kind |-> "", pre_kind |-> None, pre_frame |-> None,
     pre_frame_start |-> None, pre_queue_len |-> 0,
     advanced |-> FALSE, completed |-> FALSE]

CallOf(op, kind, advanced, completed) ==
    [op |-> op, kind |-> kind,
     pre_kind |-> IF current = None THEN None ELSE Some(Unwrap(current).anim_type),
     pre_frame |-> IF current = None THEN None ELSE Some(Unwrap(current).current_frame),
     pre_frame_start |-> IF current = None THEN None ELSE Some(Unwrap(current).frame_start),
     pre_queue_len |-> Len(queue),
     advanced |-> advanced, completed |-> completed]

\* the current animation of engine e is a one-shot
OneShotCurrent(e) == e.current # None /\ Unwrap(e.current).max_loops # None

\* what `call` records: the operation, its argument, whether it returned without
\* error, and the value it was called on
NoLifeCall == [op |-> "none", arg |-> 0, ok |-> TRUE, pre |-> None]

LifeCall(op, arg, ok, pre) == [op |-> op, arg |-> arg, ok |-> ok, pre |-> Some(pre)]

\* nothing used yet of the bounds of the life specifications
NothingSpent == [ticks |-> 0, calls |-> 0, misses |-> 0]

\* StatValue::default(), and App::new (Pet::new("Fluffy"), EventSystem::new()) at clock
\* reading 0
LifeAtRest ==
    /\ stat = StatValue_new(50)
    /\ pet = NewPet("Fluffy", 0)
    /\ events = NewEventSystem(0)
    /\ call = NoLifeCall
    /\ spent = NothingSpent
    /\ log = <<>>

\* AnimationEngine::new() at clock reading 0
EngineAtRest ==
    /\ clock = 0
    /\ current = None /\ queue = <<>> /\ particles = <<>> /\ last_update = 0
    /\ frame_cache = NewFrameCache
    /\ aborted = FALSE
    /\ used = FALSE
    /\ advances = 0
    /\ promoted_at = None
    /\ last = NoCall

Init == EngineAtRest /\ LifeAtRest

\* time passes between two calls
Tick(maxTicks) ==
    /\ ~aborted
    /\ clock + TickMs <= maxTicks * TickMs
    /\ clock' = clock + TickMs
    /\ last' = [NoCall EXCEPT !.op = "tick"]
    /\ UNCHANGED <<current, queue, particles, last_update, frame_cache, aborted, used,
                   advances, promoted_at>>
    /\ UNCHANGED life_vars

\* a driver calls engine.request(anim_type) (AnimatedPet::new / trigger / set_idle*)
Request(anim_type, maxQueue) ==
    LET e == request(Engine, anim_type, clock)
    IN  /\ ~aborted
        /\ Len(e.queue) <= maxQueue
        /\ SetEngine(e)
        /\ used' = TRUE
        /\ advances' = IF e.queue = queue THEN 0 ELSE advances
        /\ promoted_at' = IF e.queue = queue /\ OneShotCurrent(e) THEN Some(clock) ELSE None
        /\ last' = CallOf("request", anim_type, FALSE, FALSE)
        /\ UNCHANGED clock
        /\ UNCHANGED life_vars

\* the driver calls engine.update() (AnimatedPet::update)
Update ==
    \E overflow_checks \in BOOLEAN :
        LET e == update(Engine, clock, overflow_checks)
            advancing == current # None /\ InRange(Unwrap(current))
                         /\ should_advance(Unwrap(current), clock)
            completing == advancing /\ advance(Unwrap(current), clock).completed
        IN  /\ ~aborted
            /\ SetEngine(e)
            /\ used' = TRUE
            /\ advances' = IF current = None \/ completing THEN 0
                           ELSE IF advancing THEN advances + 1
                           ELSE advances
            /\ promoted_at' = IF current = None \/ completing
                              THEN IF OneShotCurrent(e) THEN Some(clock) ELSE None
                              ELSE promoted_at
            /\ last' = CallOf("update", "", advancing, completing)
            /\ UNCHANGED clock
            /\ UNCHANGED life_vars

Next ==
    \/ Tick(MaxTicks)
    \/ \E anim_type \in ReqKinds : Request(anim_type, MaxQueue)
    \/ Update

Spec == Init /\ [][Next]_vars

\* every kind of the enumeration may be requested, over a short horizon
NextAll ==
    \/ Tick(MaxTicksAll)
    \/ \E anim_type \in AnimationType : Request(anim_type, MaxQueueAll)
    \/ Update

SpecAll == Init /\ [][NextAll]_vars

-----------------------------------------------------------------------------
(* The engine over frames that declare particles.  load_builtin declares no      *)
(* particle on any frame, so under Spec and SpecAll the particle list is always  *)
(* empty and the spawning, motion and pruning code of the engine never acts.     *)
(* SpecParticles runs the same engine with a frame cache in which frames of two  *)
(* kinds carry values in their public `particles` field.                         *)

\* two ParticleSpec values, identical except for the lifetime; velocities are in
\* cells per second
Spark ==
    [symbol |-> "*", x_offset |-> 1, y_offset |-> -1, vx |-> 2, vy |-> -1,
     lifetime_ms |-> 100, color |-> "Yellow"]

Heart == [Spark EXCEPT !.lifetime_ms = 500]

\* a frame with `particles` set
FrameWith(ms, specs) == [Frame(ms) EXCEPT !.particles = specs]

\* the compiled-in cache, with particles declared on the single frame of the looping
\* IdleSleeping and on both frames of the one-shot MoodExcited
ParticleFrameCache ==
    [NewFrameCache EXCEPT
        !["IdleSleeping"] = <<FrameWith(800, <<Spark, Heart>>)>>,
        !["MoodExcited"] = <<FrameWith(150, <<Heart>>), FrameWith(150, <<Spark>>)>>]

\* the kinds the drivers request in SpecParticles
ParticleReqKinds == {"IdleSleeping", "MoodExcited"}

\* AnimationEngine::new() at clock reading 0, over ParticleFrameCache
InitParticles ==
    /\ clock = 0
    /\ current = None /\ queue = <<>> /\ particles = <<>> /\ last_update = 0
    /\ frame_cache = ParticleFrameCache
    /\ aborted = FALSE
    /\ used = FALSE
    /\ advances = 0
    /\ promoted_at = None
    /\ last = NoCall
    /\ LifeAtRest

\* the renderer reads the engine through its accessors (AnimatedPet::render)
Read ==
    /\ ~aborted
    /\ SetEngine(read_all(Engine))
    /\ last' = [NoCall EXCEPT !.op = "read"]
    /\ UNCHANGED <<clock, used, advances, promoted_at>>
    /\ UNCHANGED life_vars

NextParticles ==
    \/ Tick(MaxTicksParticles)
    \/ \E anim_type \in ParticleReqKinds : Request(anim_type, MaxQueueParticles)
    \/ Update
    \/ Read

SpecParticles == InitParticles /\ [][NextParticles]_vars

-----------------------------------------------------------------------------
(* A StatValue under any sequence of calls *)

\* the arguments given to add(), sub() and set(): every AmountStep-th u8, and the
\* values next to the limits 0, StatMax, U8Max - StatMax (the least amount that
\* overflows a u8 when added to StatMax is one more) and U8Max
Amounts ==
    {n \in 0..U8Max : n % AmountStep = 0}
        \cup {1, StatMax - 1, StatMax, StatMax + 1, U8Max - StatMax, U8Max - StatMax + 1,
              U8Max - 1, U8Max}

\* StatValue::new(v) for any u8 v
InitStat ==
    /\ EngineAtRest
    /\ \E v \in 0..U8Max :
          /\ stat = StatValue_new(v)
          /\ call = [op |-> "new", arg |-> v, ok |-> TRUE, pre |-> None]
    /\ pet = NewPet("Fluffy", 0)
    /\ events = NewEventSystem(0)
    /\ spent = NothingSpent
    /\ log = <<>>

StatAdd(amount) ==
    /\ stat' = StatValue_add(stat, amount)
    /\ call' = LifeCall("add", amount, TRUE, stat)
    /\ UNCHANGED <<pet, events, spent, log, clock>>
    /\ UNCHANGED engine_vars

StatSub(amount) ==
    /\ stat' = StatValue_sub(stat, amount)
    /\ call' = LifeCall("sub", amount, TRUE, stat)
    /\ UNCHANGED <<pet, events, spent, log, clock>>
    /\ UNCHANGED engine_vars

StatSet(value) ==
    /\ stat' = StatValue_set(stat, value)
    /\ call' = LifeCall("set", value, TRUE, stat)
    /\ UNCHANGED <<pet, events, spent, log, clock>>
    /\ UNCHANGED engine_vars

NextStat ==
    \E n \in Amounts : StatAdd(n) \/ StatSub(n) \/ StatSet(n)

SpecStat == InitStat /\ [][NextStat]_vars

-----------------------------------------------------------------------------
(* The Pet under App::tick and the player's commands.  A run starts with up to  *)
(* MaxQuietTicks ticks DecayMs apart in which the player does nothing, followed *)
(* by up to MaxPetCalls calls: commands of the player, and ticks that come      *)
(* after TickRateMs or, when the process was stalled, after StallMinutes.       *)

\* Pet::is_egg_dead
is_egg_dead(p) == p.egg_stats # None /\ Unwrap(p.egg_stats).is_dead

\* App.game_state is Playing: it becomes GameOver when the egg has died, and then
\* tick() and the command handlers return at once
Playing == ~is_egg_dead(pet)

\* the time between two ticks in the second part of a run
PetDeltas == {TickRateMs, StallMinutes * 60 * 1000}

\* the engine, the StatValue and the event system are not involved
PetOnly ==
    /\ UNCHANGED <<stat, events, log>>
    /\ UNCHANGED engine_vars

\* App::new at clock reading 0
InitPet == EngineAtRest /\ LifeAtRest

\* App::tick -> Pet::update, DecayMs after the last tick, the player idle so far
PetTick ==
    /\ Playing
    /\ spent.calls = 0 /\ spent.ticks < MaxQuietTicks
    /\ clock' = clock + DecayMs
    /\ pet' = Pet_update(pet, DecayMs, clock')
    /\ call' = LifeCall("update", DecayMs, TRUE, pet)
    /\ spent' = [spent EXCEPT !.ticks = @ + 1]
    /\ PetOnly

\* App::tick -> Pet::update, delta_time after the last tick
PetUpdate(delta_time) ==
    /\ Playing
    /\ spent.calls < MaxPetCalls
    /\ clock' = clock + delta_time
    /\ pet' = Pet_update(pet, delta_time, clock')
    /\ call' = LifeCall("update", delta_time, TRUE, pet)
    /\ spent' = [spent EXCEPT !.calls = @ + 1]
    /\ PetOnly

\* a command handler of App calls method op of the pet, which yields r
PetCommand(op, r) ==
    /\ Playing
    /\ spent.calls < MaxPetCalls
    /\ pet' = r.pet
    /\ call' = LifeCall(op, 0, r.ok, pet)
    /\ spent' = [spent EXCEPT !.calls = @ + 1]
    /\ UNCHANGED clock
    /\ PetOnly

\* App::warm_egg, feed_pet, play_with_pet, clean_pet, give_medicine
PetWarm == PetCommand("warm", warm(pet))
PetFeed == PetCommand("feed", feed(pet))
PetPlay == PetCommand("play", play(pet))
PetClean == PetCommand("clean", clean(pet))
PetMedicine == PetCommand("give_medicine", give_medicine(pet))

\* App::toggle_sleep: wake() a sleeping pet, sleep() otherwise
PetToggleSleep ==
    IF is_sleeping(pet.state)
    THEN PetCommand("wake", wake(pet, clock))
    ELSE PetCommand("sleep", sleep(pet, clock))

NextPet ==
    \/ PetTick
    \/ \E delta_time \in PetDeltas : PetUpdate(delta_time)
    \/ PetWarm
    \/ PetFeed
    \/ PetPlay
    \/ PetClean
    \/ PetMedicine
    \/ PetToggleSleep

SpecPet == InitPet /\ [][NextPet]_vars

-----------------------------------------------------------------------------
(* The EventSystem under App::tick: every tick updates the pet and, once it has *)
(* hatched, the event system, which may trigger an event.  Ticks come           *)
(* CooldownMs apart; at most MaxMisses ticks come early, DecayMs after the tick *)
(* before, or update the event system without an event.                         *)

\* the time between two ticks
EventSteps == {DecayMs, CooldownMs}

\* App::new at clock reading 0
InitEvents == EngineAtRest /\ LifeAtRest

\* App::tick, step after the last one: Pet::update, then for a hatched pet
\* EventSystem::update, and pending_event.take(); roll is whether random_float() is
\* below 0.05 and choice is what select_event_type() returns
EventTick(step, roll) ==
    LET now == clock + step
        p1 == Pet_update(pet, step, now)
    IN  /\ Playing
        /\ spent.ticks < MaxEventTicks
        /\ clock' = now
        /\ IF p1.stage = "Egg"
           THEN /\ step = DecayMs => spent.misses < MaxMisses
                /\ pet' = p1
                /\ events' = events
                /\ log' = log
                /\ call' = [op |-> "tick", arg |-> step, ok |-> FALSE, pre |-> None]
                /\ spent' = [spent EXCEPT
                                !.ticks = @ + 1,
                                !.misses = IF step = DecayMs THEN @ + 1 ELSE @]
           ELSE \E choice \in select_event_type(p1) :
                    LET r == EventSystem_update(events, p1, roll, choice, now)
                        triggered == r.events # events
                        miss == step = DecayMs \/ ~triggered
                    IN  /\ miss => spent.misses < MaxMisses
                        /\ pet' = r.pet
                        /\ events' = [r.events EXCEPT !.pending_event = None]
                        /\ log' = IF triggered THEN Append(log, Unwrap(r.events.pending_event))
                                  ELSE log
                        /\ call' = [op |-> "tick", arg |-> step, ok |-> triggered,
                                    pre |-> None]
                        /\ spent' = [spent EXCEPT
                                        !.ticks = @ + 1,
                                        !.misses = IF miss THEN @ + 1 ELSE @]
        /\ UNCHANGED stat
        /\ UNCHANGED engine_vars

NextEvents ==
    \E step \in EventSteps, roll \in BOOLEAN : EventTick(step, roll)

SpecEvents == InitEvents /\ [][NextEvents]_vars

-----------------------------------------------------------------------------
\* the kinds the drivers request in the transition specification: two Transition kinds
\* of different lengths, and one kind of every lower priority level
TransitionReqKinds ==
    {"TransitionWakeUp", "TransitionDie", "ActionSleeping", "MoodAngry", "IdleSleeping",
     "EffectZzz"}

\* the drivers around Transition animations: any of the kinds above is requested at any
\* time, over a horizon in which the shorter Transition kinds complete
NextTransition ==
    \/ Tick(MaxTicksTransition)
    \/ \E anim_type \in TransitionReqKinds : Request(anim_type, MaxQueueTransition)
    \/ Update

SpecTransition == Init /\ [][NextTransition]_vars

\* the kinds of the overflow specification: the looping kinds with the fewest frames,
\* and a one-shot
OverflowLoopKinds == {"IdleSleeping", "MoodHappy"}

OverflowReqKinds == OverflowLoopKinds \cup {"MoodAngry"}

\* An engine that has shown a looping kind without interruption, update() having been
\* called at every frame boundary: the animation is at frame 0 and its loop counter,
\* one more at each wrap-around, is within MaxWrapsLeft of u32::MAX.  The clock is read
\* from the beginning of the frame.
InitOverflow ==
    /\ clock = 0
    /\ \E k \in OverflowLoopKinds, left \in 0..MaxWrapsLeft :
          current = Some([NewActiveAnimation(k, load(NewFrameCache, k), 0)
                            EXCEPT !.loop_count = [hi |-> HalfMax, lo |-> HalfMax - left]])
    /\ queue = <<>> /\ particles = <<>> /\ last_update = 0
    /\ frame_cache = NewFrameCache
    /\ aborted = FALSE
    /\ used = TRUE
    /\ advances = 0
    /\ promoted_at = None
    /\ last = NoCall
    /\ LifeAtRest

NextOverflow ==
    \/ Tick(MaxTicksOverflow)
    \/ \E anim_type \in OverflowReqKinds : Request(anim_type, MaxQueueOverflow)
    \/ Update

SpecOverflow == InitOverflow /\ [][NextOverflow]_vars

(* Claims.  A step is a call of request(k) when last' records it. *)

IsRequest(k) == last'.op = "request" /\ last'.kind = k
IsUpdate == last'.op = "update"

\* the animation a promotion of kind k at clock reading `now` yields
Promoted(k, now) == NewActiveAnimation(k, load(frame_cache, k), now)

\* C1: a request of strictly greater priority than the current animation replaces it
\* in the same call: afterwards the current animation has the requested kind, frame
\* index 0 and loop count 0, for every pair of kinds.
C1_HigherPriorityReplaces ==
    [][\A k \in AnimationType :
          (IsRequest(k) /\ current # None
             /\ priority(k) > priority(Unwrap(current).anim_type))
          => /\ current' # None
             /\ Unwrap(current').anim_type = k
             /\ Unwrap(current').current_frame = 0
             /\ Unwrap(current').loop_count = U32(0)]_vars

\* C1 witness: a Mood request (below Action) has replaced an Idle animation that had
\* left its first frame.
C1_Witness ==
    /\ last.op = "request" /\ last.kind = "MoodExcited"
    /\ last.pre_kind = Some("IdleHappy")
    /\ clock > 0
    /\ current # None /\ Unwrap(current).anim_type = "MoodExcited"
    /\ Unwrap(current).current_frame = 0

\* C2: a request whose priority is less than or equal to the current animation's is
\* appended to the back of the queue (the queue is the old queue plus exactly that one
\* request) and the current animation (kind, frame index, frame-start time, loop
\* count) is unchanged; equal priority and the same kind are enqueued like any other.
C2_LowerOrEqualEnqueues ==
    [][\A k \in AnimationType :
          (IsRequest(k) /\ current # None
             /\ priority(k) <= priority(Unwrap(current).anim_type))
          => /\ queue' = Append(queue, NewRequest(k))
             /\ current' = current]_vars

\* C2 witness: a request for the kind that is current, past its first frame, has been
\* enqueued behind an earlier entry.
C2_Witness ==
    /\ last.op = "request" /\ last.kind = "MoodHappy"
    /\ last.pre_kind = Some("MoodHappy") /\ last.pre_frame = Some(1)
    /\ last.pre_queue_len = 1
    /\ Len(queue) = 2 /\ queue[2].anim_type = "MoodHappy"
    /\ queue[1].anim_type = "IdleNeutral"
    /\ Unwrap(current).anim_type = "MoodHappy" /\ Unwrap(current).current_frame = 1

\* C3: a request on an engine with no current animation is promoted at once, whatever
\* its priority, and the queue is unchanged.
C3_NoCurrentPromotes ==
    [][\A k \in AnimationType :
          (IsRequest(k) /\ current = None)
          => /\ current' = Some(Promoted(k, clock))
             /\ queue' = queue]_vars

\* C3 witness: a Background Effect kind was requested on a fresh engine and is current.
C3_Witness ==
    /\ last.op = "request" /\ last.kind = "EffectSparkles"
    /\ last.pre_kind = None
    /\ current = Some(Promoted("EffectSparkles", clock))
    /\ queue = <<>>

\* the policy that ignores the may-preempt flag: strictly greater priority replaces,
\* otherwise enqueue; with no current animation, promote
SimplePolicy(e, anim_type, now) ==
    IF e.current = None
    THEN start_animation(e, NewRequest(anim_type), now)
    ELSE IF priority(anim_type) > priority(Unwrap(e.current).anim_type)
         THEN start_animation([e EXCEPT !.current = None], NewRequest(anim_type), now)
         ELSE [e EXCEPT !.queue = Append(@, NewRequest(anim_type))]

\* C4: the may-preempt flag is not load-bearing: after every request() the engine is in
\* the state the policy 'strictly greater priority replaces, otherwise enqueue' yields.
C4_FlagNotLoadBearing ==
    [][\A k \in AnimationType :
          IsRequest(k) => Engine' = SimplePolicy(Engine, k, clock)]_vars

\* C4 witness: a request whose flag is false (Idle, below Action) has replaced a
\* current animation of lower priority.
C4_Witness ==
    /\ last.op = "request" /\ last.kind = "IdleSad"
    /\ ~NewRequest("IdleSad").interrupt_lower
    /\ last.pre_kind = Some("EffectZzz")
    /\ current = Some(Promoted("IdleSad", clock))

\* C5: once request() or update() has been called, every state between public calls has
\* a current animation; current_art() is None only on a fresh engine.
C5_CurrentAfterFirstUse == used => current # None

\* C5 witness: the first call on a fresh engine was update(), which promoted the default
\* idle animation.
C5_Witness ==
    /\ last.op = "update" /\ last.pre_kind = None
    /\ used
    /\ current = Some(Promoted("IdleNeutral", clock))

\* C6: the frame index of the current animation is always a valid index into its frame
\* sequence, also for kinds served by the fallback frame and in the call in which a
\* one-shot animation completes (a call that indexes out of range stops in that state).
C6_FrameIndexInRange ==
    /\ ~aborted
    /\ current # None =>
          /\ 0 <= Unwrap(current).current_frame
          /\ Unwrap(current).current_frame < Len(Unwrap(current).frames)

\* C6 witness: a one-shot animation of several frames completed in update(), and the
\* animation promoted from the queue is served by the single fallback frame.
C6_Witness ==
    /\ last.op = "update" /\ last.completed
    /\ last.pre_kind = Some("MoodExcited") /\ last.pre_frame = Some(1)
    /\ current # None /\ Unwrap(current).anim_type = "EffectHearts"
    /\ Unwrap(current).frames = <<fallback_frame>>
    /\ ~aborted

\* the update() call of this step finds a current animation whose frame has lasted its
\* duration, and advance() reports completion
Completes ==
    /\ IsUpdate
    /\ current # None
    /\ should_advance(Unwrap(current), clock)
    /\ advance(Unwrap(current), clock).completed

\* C7: when a one-shot animation completes inside update(), the same call promotes the
\* front of the queue and removes exactly that request, or promotes IdleNeutral when the
\* queue is empty, enqueuing nothing; the new current animation is at frame 0, loop
\* count 0.
C7_CompletionPromotesNext ==
    [][Completes =>
          /\ current' # None
          /\ Unwrap(current').current_frame = 0
          /\ Unwrap(current').loop_count = U32(0)
          /\ IF queue # <<>>
             THEN /\ Unwrap(current').anim_type = Head(queue).anim_type
                  /\ queue' = Tail(queue)
             ELSE /\ Unwrap(current').anim_type = "IdleNeutral"
                  /\ queue' = <<>>]_vars

\* C7 witness: a one-shot animation completed with two requests waiting; the front one
\* is current and the other is still queued.
C7_Witness ==
    /\ last.op = "update" /\ last.completed
    /\ last.pre_kind = Some("ActionMedicine") /\ last.pre_frame = Some(3)
    /\ last.pre_queue_len = 2 /\ Len(queue) = 1
    /\ current = Some(Promoted("MoodHappy", clock))
    /\ queue[1].anim_type = "ActionMedicine"

\* C8: the queue is FIFO: a step changes the queue only by appending one request at the
\* back (request) or by removing its front (update), the removed front is what update()
\* promotes, at most one per call, whatever the priorities of the waiting requests.
C8_QueueIsFifo ==
    [][\/ queue' = queue
       \/ /\ last'.op = "request"
          /\ queue' = Append(queue, NewRequest(last'.kind))
          /\ current' = current
       \/ /\ IsUpdate
          /\ queue # <<>>
          /\ queue' = Tail(queue)
          /\ current' = Some(Promoted(Head(queue).anim_type, clock))]_vars

\* C8 witness: update() promoted the front request, of Background priority, ahead of a
\* later request of Action priority that is still waiting.
C8_Witness ==
    /\ last.op = "update" /\ last.completed
    /\ last.pre_queue_len = 2 /\ Len(queue) = 1
    /\ current # None /\ Unwrap(current).anim_type = "EffectHearts"
    /\ queue[1].anim_type = "ActionMedicine"

\* C9: one update() call advances the current animation by at most one frame, however
\* much time has elapsed: the animation is unchanged, or its index is the successor of
\* the old one (0 after the last frame of a looping animation), or it completed and a
\* newly promoted animation is at frame 0.
C9_AtMostOneFramePerUpdate ==
    [][(IsUpdate /\ current # None) =>
          LET old == Unwrap(current)
              new == Unwrap(current')
              last_frame == old.current_frame = Len(old.frames) - 1
          IN  /\ current' # None
              /\ \/ current' = current
                 \/ /\ ~last_frame
                    /\ new = [old EXCEPT !.current_frame = @ + 1, !.frame_start = clock]
                 \/ /\ last_frame /\ old.max_loops = None
                    /\ new.anim_type = old.anim_type /\ new.current_frame = 0
                    /\ new.frames = old.frames
                 \/ /\ last_frame /\ old.max_loops # None
                    /\ new.current_frame = 0 /\ new.loop_count = U32(0)
                    /\ new.frame_start = clock]_vars

\* C9 witness: update() ran when the time since the frame began covered the whole
\* sequence (500 + 200 + 500 ms), and the index moved from 0 to 1 only.
C9_Witness ==
    /\ last.op = "update" /\ last.advanced
    /\ last.pre_kind = Some("IdleNeutral") /\ last.pre_frame = Some(0)
    /\ clock - Unwrap(last.pre_frame_start) >= 1200
    /\ Unwrap(current).anim_type = "IdleNeutral"
    /\ Unwrap(current).current_frame = 1

\* advance() applied k times to anim, at clock reading `now`
RECURSIVE AdvanceTimes(_, _, _)
AdvanceTimes(anim, k, now) ==
    IF k = 0 THEN anim ELSE advance(AdvanceTimes(anim, k - 1, now), now).anim

\* for every looping kind and every k up to MaxAdvances, the k-th advance after
\* promotion does not report completion and leaves the index at k mod the length
LoopingKindsCycle ==
    \A kind \in {t \in AnimationType : is_infinite(t)} :
        \A k \in 1..MaxAdvances :
            LET frames == load(NewFrameCache, kind)
                before == AdvanceTimes(NewActiveAnimation(kind, frames, 0), k - 1, 0)
            IN  /\ before.max_loops = None
                /\ ~advance(before, 0).completed
                /\ advance(before, 0).anim.current_frame = k % Len(frames)

\* C10: a looping animation never reports completion, and its frame index after k
\* advances from its promotion is k mod the number of its frames.
C10_LoopingCycles ==
    /\ LoopingKindsCycle
    /\ (last.op = "update" /\ last.pre_kind # None /\ is_infinite(Unwrap(last.pre_kind)))
          => ~last.completed
    /\ (current # None /\ Unwrap(current).max_loops = None) =>
          /\ ~advance(Unwrap(current), clock).completed
          /\ Unwrap(current).current_frame = advances % Len(Unwrap(current).frames)

\* C10 witness: a looping animation of three frames has been advanced three times by
\* update() and is back at frame 0 with one loop counted.
C10_Witness ==
    /\ last.op = "update" /\ last.advanced /\ ~last.completed
    /\ last.pre_kind = Some("IdleNeutral") /\ last.pre_frame = Some(2)
    /\ current # None /\ Unwrap(current).anim_type = "IdleNeutral"
    /\ Unwrap(current).max_loops = None
    /\ advances = 3 /\ Unwrap(current).current_frame = 0
    /\ Unwrap(current).loop_count = U32(1)

\* for every one-shot kind of n frames, advances 1 to n - 1 after promotion do not
\* report completion and leave the index at 1 to n - 1; the n-th reports completion
\* and leaves the index at n - 1
OneShotKindsComplete ==
    \A kind \in {t \in AnimationType : ~is_infinite(t)} :
        LET frames == load(NewFrameCache, kind)
            n == Len(frames)
        IN  \A k \in 1..n :
                LET before == AdvanceTimes(NewActiveAnimation(kind, frames, 0), k - 1, 0)
                    r == advance(before, 0)
                IN  /\ before.max_loops = Some(U32(1))
                    /\ r.completed = (k = n)
                    /\ r.anim.current_frame = IF k = n THEN n - 1 ELSE k

\* C11: a one-shot animation of n frames that is not preempted reports completion
\* exactly once, on its n-th advance: the advances before it report no completion and
\* step the index 1, 2, ..., n - 1, and the completing advance leaves the index at
\* n - 1.  In the engine: a one-shot animation that is current after k advances is at
\* index k < n, and update() completes it exactly when it advances it from n - 1.
C11_OneShotCompletesOnNth ==
    /\ OneShotKindsComplete
    /\ (current # None /\ Unwrap(current).max_loops # None) =>
          /\ Unwrap(current).current_frame = advances
          /\ advances < Len(Unwrap(current).frames)
          /\ advance(Unwrap(current), clock).completed
                = (advances = Len(Unwrap(current).frames) - 1)
    /\ (last.op = "update" /\ last.advanced /\ last.pre_kind # None
          /\ ~is_infinite(Unwrap(last.pre_kind)))
          => last.completed
               = (Unwrap(last.pre_frame) = Len(load(frame_cache, Unwrap(last.pre_kind))) - 1)

\* C11 witness: update() has made the fourth advance of the four-frame one-shot
\* ActionMedicine, from index 3, and it reported completion.
C11_Witness ==
    /\ last.op = "update" /\ last.advanced /\ last.completed
    /\ last.pre_kind = Some("ActionMedicine") /\ last.pre_frame = Some(3)
    /\ clock >= 1000

\* the sum of the durations of the first k frames
RECURSIVE SumDurations(_, _)
SumDurations(frames, k) ==
    IF k = 0 THEN 0 ELSE SumDurations(frames, k - 1) + frames[k].duration

\* the total duration D of a frame sequence
TotalDuration(frames) == SumDurations(frames, Len(frames))

\* C12 as stated: a one-shot animation promoted at T whose frame durations sum to D,
\* with no request() since, is no longer the current animation once update() has been
\* called at a clock reading of T + D or later.
C12_GoneOnceTotalElapsed ==
    (last.op = "update" /\ current # None /\ Unwrap(current).max_loops # None
       /\ promoted_at # None)
    => clock < Unwrap(promoted_at) + TotalDuration(Unwrap(current).frames)

\* C12, amended: a one-shot animation of n frames promoted at T, with no request()
\* since, is removed by the update() call that makes its n-th advance, and by no other:
\* that call finds the last frame's duration elapsed, comes at T + D or later, and
\* promotes the front of the queue, or IdleNeutral when the queue is empty; every other
\* update() call leaves the animation current, also at T + D or later.
C12_GoneOnNthAdvance ==
    [][(IsUpdate /\ current # None /\ Unwrap(current).max_loops # None
          /\ promoted_at # None) =>
          LET old == Unwrap(current)
              n == Len(old.frames)
          IN  IF old.current_frame = n - 1 /\ should_advance(old, clock)
              THEN /\ advances = n - 1
                   /\ clock >= Unwrap(promoted_at) + TotalDuration(old.frames)
                   /\ current' = Some(Promoted(IF queue # <<>> THEN Head(queue).anim_type
                                                ELSE "IdleNeutral", clock))
                   /\ queue' = IF queue # <<>> THEN Tail(queue) ELSE <<>>
              ELSE /\ current' # None
                   /\ Unwrap(current').anim_type = old.anim_type
                   /\ Unwrap(current').max_loops # None
                   /\ promoted_at' = promoted_at]_vars

\* C12 witness: MoodExcited (150 + 150 ms) was promoted at T with no request() since;
\* update() has run at T + 300 ms or later and the animation is still current, at its
\* last frame.
C12_Witness ==
    /\ last.op = "update" /\ last.advanced /\ ~last.completed
    /\ current # None /\ Unwrap(current).anim_type = "MoodExcited"
    /\ Unwrap(current).current_frame = 1
    /\ promoted_at # None
    /\ clock >= Unwrap(promoted_at) + 300

\* C13: once an animation of a looping kind is current, update() never changes the
\* current kind (nor takes anything from the queue): the current kind changes only in a
\* request() of strictly greater priority.  So a looping kind promoted from the queue
\* after a one-shot completed stays current under update() alone.
C13_LoopingStaysUntilPreempted ==
    [][(current # None /\ Unwrap(current).max_loops = None) =>
          LET old == Unwrap(current)
          IN  /\ IsUpdate =>
                    /\ current' # None
                    /\ Unwrap(current').anim_type = old.anim_type
                    /\ Unwrap(current').max_loops = None
                    /\ queue' = queue
              /\ (current' = None \/ Unwrap(current').anim_type # old.anim_type) =>
                    \E k \in AnimationType :
                        /\ IsRequest(k)
                        /\ priority(k) > priority(old.anim_type)
                        /\ current' = Some(Promoted(k, clock))]_vars

\* C13 witness: the looping MoodHappy has been advanced by update() past its last
\* frame, with a request waiting in the queue, and is still current.
C13_Witness ==
    /\ last.op = "update" /\ last.advanced
    /\ last.pre_kind = Some("MoodHappy") /\ last.pre_frame = Some(1)
    /\ current # None /\ Unwrap(current).anim_type = "MoodHappy"
    /\ Unwrap(current).loop_count = U32(1)
    /\ queue # <<>>

\* the age of a particle at the current clock reading
Age(p) == clock - p.birth_time

\* C14: after every update() call returns, whether or not the animation changed in it,
\* the live particle list contains no particle whose age is greater than or equal to
\* its spec's lifetime.
C14_NoExpiredParticleAfterUpdate ==
    (last.op = "update" /\ ~aborted) =>
        \A i \in 1..Len(particles) : Age(particles[i]) < particles[i].spec.lifetime_ms

\* C14 witness: IdleSleeping spawned a Spark (100 ms) and a Heart (500 ms) at its
\* promotion; update() has run with the animation unchanged, 100 ms or more later, and
\* only the Heart is in the list.
C14_Witness ==
    /\ last.op = "update" /\ ~last.advanced
    /\ current # None /\ Unwrap(current).anim_type = "IdleSleeping"
    /\ Unwrap(current).loop_count = U32(0)
    /\ Len(particles) = 1
    /\ particles[1].spec = Heart
    /\ particles[1].birth_time = Unwrap(current).frame_start
    /\ Age(particles[1]) >= Spark.lifetime_ms

\* update_particles() on a Spark (100 ms) and a Heart (500 ms) spawned together, 150 ms
\* later, leaves exactly the Heart
PruneExample ==
    LET born == <<NewParticle(Spark, BaseX, BaseY, 0), NewParticle(Heart, BaseX, BaseY, 0)>>
        e == [NewEngine(0) EXCEPT !.particles = born]
    IN  update_particles(e, 150, 150).particles = <<ParticleUpdate(born[2], 150)>>

\* C15: update() removes only expired particles: the particles whose age is strictly
\* less than their lifetime when update() runs are still in the list afterwards, in
\* their original relative order, ahead of the particles spawned in the call, and no
\* other particle is; of two particles spawned together with lifetimes 100 ms and
\* 500 ms, one update() at 150 ms leaves exactly the second.
C15_OnlyExpiredRemoved ==
    /\ PruneExample
    /\ [][(IsUpdate /\ ~aborted') =>
             LET survivors == SelectSeq(particles,
                                        LAMBDA p : Age(p) < p.spec.lifetime_ms)
             IN  /\ Len(particles') >= Len(survivors)
                 /\ \A i \in 1..Len(survivors) :
                        /\ particles'[i].spec = survivors[i].spec
                        /\ particles'[i].birth_time = survivors[i].birth_time
                 /\ \A i \in (Len(survivors) + 1)..Len(particles') :
                        particles'[i].birth_time = clock]_vars

\* C15 witness: update() has removed the Spark spawned with the first Heart, 100 ms or
\* more after its spawn, and kept that Heart and a younger Heart in their order.
C15_Witness ==
    /\ last.op = "update" /\ ~last.advanced
    /\ last.pre_kind = Some("MoodExcited")
    /\ Len(particles) = 2
    /\ particles[1].spec = Heart /\ particles[2].spec = Heart
    /\ particles[1].birth_time < particles[2].birth_time
    /\ particles[2].birth_time = Unwrap(current).frame_start
    /\ Age(particles[1]) >= Spark.lifetime_ms
    /\ Age(particles[2]) > 0

\* where a particle of age t is when it has moved from anchor + offset at its spec's
\* velocity for the time t (thousandths of a cell)
LinearPosition(p, t) ==
    [x |-> (BaseX + p.spec.x_offset) * 1000 + p.spec.vx * t,
     y |-> (BaseY + p.spec.y_offset) * 1000 + p.spec.vy * t]

Spawned(specs, now) ==
    [i \in 1..Len(specs) |-> NewParticle(specs[i], BaseX, BaseY, now)]

\* the specs declared on the frames that become current in a step, in the order in
\* which they do: in request(), frame 0 of a promoted animation; in update(), the frame
\* an advance results in (the last frame again when the advance completes) and then
\* frame 0 of a promoted animation
BecomesCurrentSpecs ==
    LET first == Unwrap(current').frames[1].particles
    IN  IF last'.op = "request"
        THEN IF queue' = queue THEN first ELSE <<>>
        ELSE (IF ~last'.advanced THEN <<>>
              ELSE IF last'.completed
                   THEN Unwrap(current).frames[Len(Unwrap(current).frames)].particles
                   ELSE current_frame_ref(Unwrap(current')).particles)
             \o (IF current = None \/ last'.completed THEN first ELSE <<>>)

\* C17: every time a frame becomes the current frame of the current animation, at
\* promotion (frame 0) and after every advance, each wrap-around of a looping animation
\* included, one particle is spawned for each spec declared on that frame, at the
\* anchor (10, 10) plus the spec's offset.  request() appends exactly these particles;
\* update() appends them behind the survivors, and its particle pass has then moved
\* them by velocity * dt.
C17_SpawnWhenFrameBecomesCurrent ==
    [][/\ (last'.op = "request" /\ ~aborted') =>
             particles' = particles \o Spawned(BecomesCurrentSpecs, clock)
       /\ (IsUpdate /\ ~aborted') =>
             LET new == Spawned(BecomesCurrentSpecs, clock)
                 kept == Len(particles') - Len(new)
             IN  /\ kept = Len(SelectSeq(particles, LAMBDA p : Age(p) < p.spec.lifetime_ms))
                 /\ \A i \in 1..Len(new) :
                        particles'[kept + i] = ParticleUpdate(new[i], clock - last_update)]_vars

\* C17 witness: update() has advanced the one-frame looping IdleSleeping around to
\* frame 0 again, and the Spark and the Heart declared on that frame are the last two
\* particles of the list, born in this call.
C17_Witness ==
    /\ last.op = "update" /\ last.advanced /\ ~last.completed
    /\ last.pre_kind = Some("IdleSleeping")
    /\ current # None /\ Unwrap(current).anim_type = "IdleSleeping"
    /\ Unwrap(current).current_frame = 0 /\ Unwrap(current).loop_count = U32(1)
    /\ Len(particles) >= 2
    /\ particles[Len(particles) - 1].spec = Spark
    /\ particles[Len(particles)].spec = Heart
    /\ particles[Len(particles) - 1].birth_time = clock
    /\ particles[Len(particles)].birth_time = clock

\* C18: every kind of the enumeration has a compiled-in frame sequence, so load(kind)
\* never returns the single-frame fallback for a kind request() can be given, the five
\* Effect kinds included: no animation that request() or update() promotes plays the
\* fallback.
C18_NoKindLoadsFallback ==
    current # None =>
        /\ Unwrap(current).anim_type \in DOMAIN frame_cache
        /\ Unwrap(current).frames # <<fallback_frame>>

\* C19: priority() and is_infinite() are fixed functions of the kind: Effect kinds map
\* to Background, Idle kinds to Idle, Mood kinds to Mood, Action kinds to Action and
\* Transition kinds to Transition; is_infinite is true exactly for the four Idle kinds,
\* MoodHappy and MoodSad; a promoted animation has max_loops = None iff its kind
\* is_infinite, otherwise Some(1), and a queued request carries its kind's priority;
\* the levels are ordered Background < Idle < Mood < Action < Transition < Critical.
C19_KindTables ==
    /\ Background < Idle /\ Idle < Mood /\ Mood < Action /\ Action < Transition
    /\ Transition < Critical
    /\ \A k \in AnimationType :
          /\ (priority(k) = Background) = (k \in EffectKinds)
          /\ (priority(k) = Idle) = (k \in IdleKinds)
          /\ (priority(k) = Mood) = (k \in MoodKinds)
          /\ (priority(k) = Action) = (k \in ActionKinds)
          /\ (priority(k) = Transition) = (k \in TransitionKinds)
          /\ is_infinite(k) = (k \in IdleKinds \/ k = "MoodHappy" \/ k = "MoodSad")
    /\ current # None =>
          /\ Unwrap(current).anim_type \in AnimationType
          /\ (Unwrap(current).max_loops = None) = is_infinite(Unwrap(current).anim_type)
          /\ (Unwrap(current).max_loops = Some(U32(1)))
                = ~is_infinite(Unwrap(current).anim_type)
    /\ \A i \in 1..Len(queue) :
          /\ queue[i].priority = priority(queue[i].anim_type)
          /\ queue[i].interrupt_lower = (priority(queue[i].anim_type) >= Action)

\* C19 witness: the one-shot Mood kind MoodExcited is current with max_loops = Some(1),
\* and a request for the looping MoodHappy waits behind it with priority Mood.
C19_Witness ==
    /\ current # None /\ Unwrap(current).anim_type = "MoodExcited"
    /\ Unwrap(current).max_loops = Some(U32(1))
    /\ Len(queue) = 1 /\ queue[1].anim_type = "MoodHappy" /\ queue[1].priority = Mood

\* the animation after the step is of kind k, at frame 0 with loop count 0, its first
\* frame begun at the clock reading of the call
FreshlyPromoted(k) ==
    /\ current' # None
    /\ Unwrap(current').anim_type = k
    /\ Unwrap(current').frames = load(frame_cache, k)
    /\ Unwrap(current').current_frame = 0
    /\ Unwrap(current').loop_count = U32(0)
    /\ Unwrap(current').frame_start = clock

\* the last particles of the list after the step are one per spec declared on frame 0
\* of kind k, in order, born at the clock reading of the call
Frame0ParticlesSpawned(k) ==
    LET specs == load(frame_cache, k)[1].particles
        kept == Len(particles') - Len(specs)
    IN  /\ kept >= 0
        /\ \A i \in 1..Len(specs) :
               /\ particles'[kept + i].spec = specs[i]
               /\ particles'[kept + i].birth_time = clock

\* C20: every promotion to current, by request() on an empty engine, by preemption,
\* from the queue, or as the default idle, yields an animation with frame index 0, loop
\* count 0 and frame-start time equal to the time of the promotion, and spawns the
\* particles declared on its frame 0 in the same call.
C20_PromotionStartsAfresh ==
    [][/\ \A k \in AnimationType :
             (IsRequest(k) /\ (current = None
                                \/ priority(k) > priority(Unwrap(current).anim_type)))
             => /\ FreshlyPromoted(k)
                /\ Frame0ParticlesSpawned(k)
                /\ Len(particles') = Len(particles) + Len(load(frame_cache, k)[1].particles)
       /\ (IsUpdate /\ (current = None \/ Completes)) =>
             LET k == IF queue # <<>> THEN Head(queue).anim_type ELSE "IdleNeutral"
             IN  /\ FreshlyPromoted(k)
                 /\ Frame0ParticlesSpawned(k)]_vars

\* C20 witness: update() has completed a one-shot and promoted IdleSleeping from the
\* queue, at a clock reading after 0: it is at frame 0 with loop count 0, its frame
\* begun in this call, and the Spark and the Heart of its frame 0 end the list.
C20_Witness ==
    /\ last.op = "update" /\ last.completed /\ last.pre_queue_len = 1
    /\ clock > 0
    /\ current # None /\ Unwrap(current).anim_type = "IdleSleeping"
    /\ Unwrap(current).current_frame = 0 /\ Unwrap(current).loop_count = U32(0)
    /\ Unwrap(current).frame_start = clock
    /\ Len(particles) >= 2
    /\ particles[Len(particles) - 1].spec = Spark
    /\ particles[Len(particles)].spec = Heart
    /\ particles[Len(particles)].birth_time = clock

\* C21: the read accessors current_art(), current_color(), current_type() and
\* particles() change nothing: the current animation, the queue, the particle list and
\* the last-update time are the same before and after any number of accessor calls,
\* and no call panics.
C21_AccessorsChangeNothing ==
    [][last'.op = "read" =>
          /\ current' = current /\ queue' = queue /\ particles' = particles
          /\ last_update' = last_update /\ frame_cache' = frame_cache
          /\ ~aborted'
          /\ current_art(Engine').engine = Engine'
          /\ current_color(Engine').engine = Engine'
          /\ current_type(Engine').engine = Engine'
          /\ particles_of(Engine').engine = Engine'
          /\ particles_of(Engine).value = particles
          /\ current_type(Engine).value
                = (IF current = None THEN None ELSE Some(Unwrap(current).anim_type))]_vars

\* C21 witness: the accessors have been called on an engine with a current animation,
\* a waiting request and live particles.
C21_Witness ==
    /\ last.op = "read"
    /\ current # None /\ queue # <<>> /\ particles # <<>>
    /\ last_update > 0

\* the engine e with the progress of its current animation erased: the same kind and
\* frames, at frame 0 with loop count 0 and frame-start time 0
Forgetting(e) ==
    IF e.current = None THEN e
    ELSE [e EXCEPT !.current =
            Some(NewActiveAnimation(Unwrap(@).anim_type, Unwrap(@).frames, 0))]

\* C26: preemption touches only the current animation.  When request() replaces the
\* current animation the queue is exactly as it was, and nothing of the discarded
\* animation is kept: the engine after the call is the one the same request yields
\* when the discarded animation's frame index, loop count and frame-start time are
\* erased beforehand.  When the one-shot then completes, update() promotes the front
\* of the queue, or IdleNeutral when the queue is empty, at frame 0 with loop count 0
\* and its frame begun in that call.
C26_PreemptionTouchesOnlyCurrent ==
    [][/\ \A k \in AnimationType :
             (IsRequest(k) /\ current # None
                /\ priority(k) > priority(Unwrap(current).anim_type))
             => /\ queue' = queue
                /\ Unwrap(current').anim_type = k
                /\ Engine' = request(Forgetting(Engine), k, clock)
       /\ Completes =>
             /\ FreshlyPromoted(IF queue # <<>> THEN Head(queue).anim_type
                                ELSE "IdleNeutral")
             /\ queue' = (IF queue # <<>> THEN Tail(queue) ELSE <<>>)]_vars

\* C26 witness: a request has replaced a looping animation that had left its first
\* frame, with two requests waiting; both are still waiting, in the same order, and
\* the new animation is a one-shot.
C26_Witness ==
    /\ last.op = "request" /\ last.pre_kind # None /\ last.pre_kind # Some(last.kind)
    /\ last.pre_frame # None /\ Unwrap(last.pre_frame) >= 1
    /\ last.pre_queue_len = 2 /\ Len(queue) = 2
    /\ queue[1].anim_type # queue[2].anim_type
    /\ current # None /\ Unwrap(current).anim_type = last.kind
    /\ Unwrap(current).max_loops # None

\* C27: in the update() call in which a one-shot animation completes, the completing
\* advance leaves the animation on its last frame, the particles of that frame are
\* spawned once more, and then the particles of frame 0 of the newly promoted animation
\* are spawned, in this order, behind the particles that survive the call; the
\* particle pass of the same call has moved each of them by velocity * dt.
C27_CompletionSpawnsLastFrameThenFrame0 ==
    [][(Completes /\ ~aborted') =>
          LET old == Unwrap(current)
              done == advance(old, clock).anim
              k == IF queue # <<>> THEN Head(queue).anim_type ELSE "IdleNeutral"
              last_specs == old.frames[Len(old.frames)].particles
              first_specs == load(frame_cache, k)[1].particles
              new == Spawned(last_specs, clock) \o Spawned(first_specs, clock)
              kept == Len(particles') - Len(new)
          IN  /\ old.max_loops # None
              /\ done.current_frame = Len(old.frames) - 1
              /\ current_frame_ref(done).particles = last_specs
              /\ Unwrap(current').anim_type = k
              /\ Unwrap(current').current_frame = 0
              /\ kept = Len(SelectSeq(particles, LAMBDA p : Age(p) < p.spec.lifetime_ms))
              /\ \A i \in 1..Len(new) :
                     particles'[kept + i] = ParticleUpdate(new[i], clock - last_update)]_vars

\* C27 witness: update() has completed the two-frame one-shot MoodExcited and promoted
\* IdleSleeping from the queue: the list ends with the Spark of MoodExcited's last
\* frame and then the Spark and the Heart of IdleSleeping's frame 0, all three born in
\* this call.
C27_Witness ==
    /\ last.op = "update" /\ last.completed
    /\ last.pre_kind = Some("MoodExcited") /\ last.pre_frame = Some(1)
    /\ current # None /\ Unwrap(current).anim_type = "IdleSleeping"
    /\ Len(particles) >= 3
    /\ particles[Len(particles) - 2].spec = Spark
    /\ particles[Len(particles) - 1].spec = Spark
    /\ particles[Len(particles)].spec = Heart
    /\ \A i \in (Len(particles) - 2)..Len(particles) : particles[i].birth_time = clock

\* C28: advance(now) sets the frame-start time to `now` on the plain step, on the
\* wrap-around and on completion; should_advance(now) is true exactly when now minus
\* the frame-start time is at least the duration of the current frame, and update()
\* advances exactly then; the frame-start time changes in no other way while an
\* animation stays current, so after an advance at time t the next advance happens no
\* earlier than t plus the duration of the frame the advance made current.
C28_AdvanceRestartsFrameClock ==
    [][/\ current # None =>
             LET anim == Unwrap(current)
                 due == clock - anim.frame_start >= anim.frames[anim.current_frame + 1].duration
             IN  /\ advance(anim, clock).anim.frame_start = clock
                 /\ should_advance(anim, clock) = due
                 /\ IsUpdate => (last'.advanced = due)
                 /\ (IsUpdate /\ due /\ ~advance(anim, clock).completed) =>
                        /\ current' = Some(advance(anim, clock).anim)
                        /\ Unwrap(current').frame_start = clock
                 /\ (IsUpdate /\ ~due) => current' = current
       /\ (current # None /\ current' # None
             /\ Unwrap(current').frame_start # Unwrap(current).frame_start) =>
             /\ Unwrap(current').frame_start = clock
             /\ \/ IsUpdate /\ last'.advanced
                \/ last'.op = "request" /\ queue' = queue]_vars

\* C28 witness: update() has advanced a looping animation around to frame 0 at a clock
\* reading after 0 (a wrap-around), and the frame-start time is that reading.
C28_Witness ==
    /\ last.op = "update" /\ last.advanced /\ ~last.completed
    /\ clock > 0
    /\ current # None /\ Unwrap(current).max_loops = None
    /\ Unwrap(current).current_frame = 0 /\ Unwrap(current).loop_count = U32(1)
    /\ Len(Unwrap(current).frames) > 1
    /\ Unwrap(current).frame_start = clock

\* C29: an update() call made while the current frame has not yet lasted its duration
\* leaves the current animation (kind, frames, frame index, frame-start time, loop
\* count) and the queue unchanged and spawns no particle: last_update becomes the time
\* of the call, and the particle list is the old list, each particle moved by
\* velocity * dt, without those whose lifetime has run out.
C29_EarlyUpdateOnlyMovesParticles ==
    [][(IsUpdate /\ current # None
          /\ clock - Unwrap(current).frame_start
               < current_frame_ref(Unwrap(current)).duration)
       => /\ current' = current
          /\ queue' = queue
          /\ frame_cache' = frame_cache
          /\ ~aborted'
          /\ last_update' = clock
          /\ particles' =
                SelectSeq([i \in 1..Len(particles) |->
                              ParticleUpdate(particles[i], clock - last_update)],
                          LAMBDA p : Age(p) < p.spec.lifetime_ms)]_vars

\* C29 witness: update() was called 100 ms after the last call, on an animation whose
\* frame was not yet due, with a request waiting and particles alive: nothing was
\* spawned, a particle was pruned and a survivor has moved from its spawn position.
C29_Witness ==
    /\ last.op = "update" /\ ~last.advanced /\ last.pre_kind # None
    /\ queue # <<>>
    /\ last_update = clock /\ clock > 0
    /\ particles # <<>>
    /\ \A i \in 1..Len(particles) : particles[i].birth_time < clock
    /\ \E i \in 1..Len(particles) :
           particles[i].x # (BaseX + particles[i].spec.x_offset) * 1000

\* C30: update() removes a request from the queue only in a call in which the current
\* one-shot animation completes or no animation is current, and then exactly the
\* front one; request() removes none.  While a looping animation is current the queue
\* never loses a request, and the looping animation stays current until a request of
\* strictly greater priority replaces it: the requests behind it wait until a one-shot
\* that has taken its place completes.
C30_DequeueOnlyOnCompletion ==
    [][/\ IsUpdate =>
             /\ (queue' # queue) =>
                   /\ current = None \/ (Completes /\ Unwrap(current).max_loops # None)
                   /\ queue # <<>> /\ queue' = Tail(queue)
             /\ ((current = None \/ Completes) /\ queue # <<>>) => queue' = Tail(queue)
       /\ last'.op = "request" => (queue' = queue \/ Len(queue') = Len(queue) + 1)
       /\ (current # None /\ Unwrap(current).max_loops = None) =>
             /\ Len(queue') >= Len(queue)
             /\ SubSeq(queue', 1, Len(queue)) = queue
             /\ current' # None
             /\ \/ Unwrap(current').anim_type = Unwrap(current).anim_type
                \/ /\ last'.op = "request"
                   /\ priority(last'.kind) > priority(Unwrap(current).anim_type)
                   /\ Unwrap(current').anim_type = last'.kind]_vars

\* C30 witness: two requests waited behind a one-shot that had replaced a looping
\* animation; update() has completed the one-shot and promoted the front request, a
\* looping kind, and the other request is still waiting behind it.
C30_Witness ==
    /\ last.op = "update" /\ last.completed
    /\ last.pre_queue_len = 2 /\ Len(queue) = 1
    /\ current # None /\ Unwrap(current).max_loops = None
    /\ Unwrap(current).anim_type # queue[1].anim_type

-----------------------------------------------------------------------------
(* Claims about the life simulation.  A step is a call of method op on the pet  *)
(* when call' records it; call'.pre is the pet before the call.                 *)

IsPetCall(op) == call'.op = op /\ call'.pre = Some(pet)

\* C22: a StatValue is always within 0..=100: after new(v) for any u8 v and after any
\* sequence of add(n), sub(n) and set(n) with any u8 arguments; add stops at 100 and
\* sub stops at 0, neither wraps around, and set(n) and new(n) yield n capped at 100.
C22_StatValueStaysInRange ==
    /\ [](stat.value \in StatMin..StatMax)
    /\ [][/\ call'.op = "add" =>
                stat'.value = (IF stat.value + call'.arg > StatMax THEN StatMax
                               ELSE stat.value + call'.arg)
          /\ call'.op = "sub" =>
                stat'.value = (IF stat.value - call'.arg < StatMin THEN StatMin
                               ELSE stat.value - call'.arg)
          /\ call'.op = "set" =>
                stat'.value = (IF call'.arg > StatMax THEN StatMax ELSE call'.arg)]_vars

\* C22 witness: add(255) on a StatValue of 100, where the u8 sum 355 would wrap around
\* to 99, has left the value at 100.
C22_Witness ==
    /\ call.op = "add" /\ call.arg = U8Max
    /\ call.pre = Some([value |-> 100])
    /\ stat.value = 100

\* C23: feed() on a pet that is Sleeping or Dead, or still in the Egg stage, returns an
\* error and leaves the pet as it was (stats, state and stage included); feed() on a
\* hatched pet that is Normal or Sick succeeds, raises hunger by 25 capped at 100, so
\* never lowers it, and leaves state and stage unchanged.
C23_FeedOnlyWhenAbleToAct ==
    [][IsPetCall("feed") =>
          IF pet.stage = "Egg" \/ pet.state.kind \in {"Sleeping", "Dead"}
          THEN ~call'.ok /\ pet' = pet
          ELSE /\ call'.ok
               /\ pet.state.kind \in {"Normal", "Sick"}
               /\ pet'.stats.hunger.value
                     = (IF pet.stats.hunger.value + 25 > StatMax THEN StatMax
                        ELSE pet.stats.hunger.value + 25)
               /\ pet'.stats.hunger.value >= pet.stats.hunger.value
               /\ pet'.state = pet.state /\ pet'.stage = pet.stage]_vars

\* C23 witness: feed() has succeeded on a Sick pet whose hunger was above 75, and has
\* left hunger at 100.
C23_Witness ==
    /\ call.op = "feed" /\ call.ok
    /\ Unwrap(call.pre).state.kind = "Sick"
    /\ Unwrap(call.pre).stats.hunger.value > 75
    /\ pet.stats.hunger.value = StatMax
    /\ pet.state.kind = "Sick"

\* the stage the age of p calls for once p has hatched
StageOfAge(p) ==
    LET age_minutes == p.age_seconds \div 60
    IN  IF age_minutes >= AdultMinutes THEN "Adult"
        ELSE IF age_minutes >= TeenMinutes THEN "Teen"
        ELSE IF age_minutes >= ChildMinutes THEN "Child"
        ELSE "Baby"

\* update_life_stage() applied to p conforms: the stage does not go back and goes at
\* most one stage on, Baby to Child only at 5 minutes of age, Child to Teen only at 15,
\* Teen to Adult only at 30, and at the threshold it does go on; an Egg and an Adult
\* stay what they are; nothing but the stage changes
StageStepConforms(p) ==
    LET q == update_life_stage(p)
        age_minutes == p.age_seconds \div 60
        threshold == CASE p.stage = "Baby" -> ChildMinutes
                       [] p.stage = "Child" -> TeenMinutes
                       [] p.stage = "Teen" -> AdultMinutes
                       [] OTHER -> -1
    IN  /\ q = [p EXCEPT !.stage = q.stage]
        /\ StageRank(q.stage) \in {StageRank(p.stage), StageRank(p.stage) + 1}
        /\ p.stage \in {"Egg", "Adult"} => q.stage = p.stage
        /\ p.stage \in {"Baby", "Child", "Teen"} =>
              (q.stage # p.stage) = (age_minutes >= threshold)

\* C24: update_life_stage() never moves a pet to an earlier stage and moves at most one
\* stage per call: Baby becomes Child only when the age is at least 5 minutes, Child
\* becomes Teen only at 15 minutes, Teen becomes Adult only at 30 minutes; below the
\* threshold the stage is unchanged, and an Egg is never changed by it.  It holds of a
\* call on the pet of every reachable state, and of the call Pet::update makes after it
\* has added the elapsed seconds to the age of a hatched, living pet.
C24_LifeStageStepsForward ==
    /\ [](StageStepConforms(pet))
    /\ [][IsPetCall("update") =>
             LET aged == [pet EXCEPT !.age_seconds = @ + as_secs(call'.arg)]
             IN  /\ StageStepConforms(aged)
                 /\ StageRank(pet'.stage) >= StageRank(pet.stage)
                 /\ (pet.stage # "Egg" /\ pet.state.kind # "Dead") =>
                       pet'.stage = update_life_stage(aged).stage
                 /\ (pet.stage # "Egg" /\ pet.state.kind = "Dead") =>
                       pet'.stage = pet.stage
                 /\ pet.stage = "Egg" => pet'.stage \in {"Egg", "Baby"}]_vars

\* C24 witness: Pet::update has moved a Baby to Child, one stage, although its age of
\* at least 15 minutes calls for Teen (the egg hatched late, after a stall).
C24_Witness ==
    /\ call.op = "update"
    /\ Unwrap(call.pre).stage = "Baby"
    /\ pet.stage = "Child"
    /\ pet.age_seconds \div 60 >= TeenMinutes
    /\ StageOfAge(pet) = "Teen"

\* the last n elements of sequence s, or all of s when it is shorter
LastN(s, n) == IF Len(s) <= n THEN s ELSE SubSeq(s, Len(s) - n + 1, Len(s))

\* C25: after any sequence of triggered events the event history holds at most
\* max_history entries, and it is the most recent events in order of occurrence: a
\* triggered event is appended at the end, and when that exceeds the limit the oldest
\* entry, the first, is removed.
C25_HistoryKeepsMostRecent ==
    /\ [](/\ Len(events.event_history) <= events.max_history
          /\ events.event_history = LastN(log, events.max_history)
          /\ \A i \in 1..(Len(log) - 1) : log[i].timestamp < log[i + 1].timestamp)
    /\ [][(call'.op = "tick" /\ call'.ok) =>
             LET old == events.event_history
                 new == events'.event_history
                 event == new[Len(new)]
             IN  /\ event.timestamp = clock'
                 /\ new = (IF Len(old) < events.max_history THEN Append(old, event)
                           ELSE Append(Tail(old), event))]_vars

\* C25 witness: twelve events of two types have been triggered; the history holds the
\* last ten of them, the third at its front.
C25_Witness ==
    /\ Len(log) = 12
    /\ events.max_history = 10
    /\ Len(events.event_history) = 10
    /\ events.event_history[1] = log[3]
    /\ events.event_history[10] = log[12]
    /\ log[1].timestamp < log[3].timestamp
    /\ \E i, j \in 1..12 : log[i].event_type # log[j].event_type

-----------------------------------------------------------------------------
(* Claims about the queue and the current animation together *)

\* no request waiting in queue q has a priority above that of the animation cur
NoneOutranks(cur, q) ==
    cur # None => \A i \in 1..Len(q) : q[i].priority <= priority(Unwrap(cur).anim_type)

\* C31, as stated: in every reachable state no request waiting in the queue has a
\* priority strictly greater than the priority of the current animation.
C31_QueueNeverOutranksCurrent == NoneOutranks(current, queue)

\* C31: request() appends to the queue only a request whose priority is at most that of
\* the animation current at the call, and it never brings about a state in which a
\* waiting request outranks the current animation.  Such a state is entered only by an
\* update() whose advance() reports completion: it promotes the front of the queue in
\* arrival order, whatever the priorities of the requests behind it.
C31_OutrankedOnlyAfterCompletion ==
    [][/\ \A k \in AnimationType :
              (IsRequest(k) /\ queue' # queue) =>
                  /\ current # None /\ current' = current
                  /\ queue' = Append(queue, NewRequest(k))
                  /\ priority(k) <= priority(Unwrap(current).anim_type)
       /\ (NoneOutranks(current, queue) /\ ~NoneOutranks(current', queue')) =>
              /\ IsUpdate /\ last'.completed
              /\ queue # <<>> /\ queue' = Tail(queue)
              /\ Unwrap(current').anim_type = Head(queue).anim_type]_vars

\* C31 witness: a completing update() has promoted the front of a queue of two, and the
\* request left waiting has a higher priority than the animation it promoted.
C31_Witness ==
    /\ last.op = "update" /\ last.completed
    /\ last.pre_queue_len = 2 /\ Len(queue) = 1
    /\ current # None
    /\ queue[1].priority > priority(Unwrap(current).anim_type)
    /\ ~NoneOutranks(current, queue)

\* the current animation of the state has Transition priority
TransitionCurrent ==
    current # None /\ priority(Unwrap(current).anim_type) = Transition

\* C32: no kind has Critical priority, Transition is the greatest priority of any kind.
\* While a Transition animation is current, request(k) of every kind k leaves it
\* untouched and appends the request to the queue, and the animation stays current,
\* unfinished, through every step but an update() whose advance() reports completion.
C32_TransitionNeverPreempted ==
    /\ [](/\ \A k \in AnimationType : priority(k) # Critical /\ priority(k) <= Transition
          /\ TransitionCurrent =>
                \A k \in AnimationType :
                    request(Engine, k, clock) =
                        [Engine EXCEPT !.queue = Append(@, NewRequest(k))])
    /\ [][TransitionCurrent =>
             /\ \A k \in AnimationType :
                    IsRequest(k) =>
                        /\ current' = current
                        /\ queue' = Append(queue, NewRequest(k))
             /\ ~(IsUpdate /\ last'.completed) =>
                    /\ current' # None
                    /\ Unwrap(current').anim_type = Unwrap(current).anim_type
                    /\ Unwrap(current').loop_count = U32(0)
                    /\ Unwrap(current').current_frame >= Unwrap(current).current_frame
             /\ (IsUpdate /\ last'.completed) =>
                    /\ Unwrap(current).current_frame = Len(Unwrap(current).frames) - 1
                    /\ should_advance(Unwrap(current), clock)]_vars

\* C32 witness: a Transition animation has completed in update() with a request of
\* another Transition kind waiting, made while it was current, and that request has
\* been promoted.
C32_Witness ==
    /\ last.op = "update" /\ last.completed
    /\ last.pre_kind # None /\ Unwrap(last.pre_kind) \in TransitionKinds
    /\ last.pre_queue_len = 1 /\ queue = <<>>
    /\ current # None
    /\ Unwrap(current).anim_type \in TransitionKinds
    /\ Unwrap(current).anim_type # Unwrap(last.pre_kind)

-----------------------------------------------------------------------------
(* Claims about the arithmetic of the engine *)

\* C33: nothing in the engine overflows and aborts.  No update() aborts; the loop
\* counter of a looping animation is never decreased by a wrap-around (one more each
\* time, or held at the maximum), however many there have been; the loop counter of a
\* one-shot animation never exceeds 1.
C33_LoopCounterStaysInRange ==
    /\ [](~aborted)
    /\ [](current # None /\ Unwrap(current).max_loops # None =>
              U32Ge(U32(1), Unwrap(current).loop_count))
    /\ [][(/\ IsUpdate /\ last'.advanced
           /\ current # None /\ Unwrap(current).max_loops = None
           /\ Unwrap(current).current_frame = Len(Unwrap(current).frames) - 1) =>
              /\ current' # None
              /\ Unwrap(current').anim_type = Unwrap(current).anim_type
              /\ U32Ge(Unwrap(current').loop_count, Unwrap(current).loop_count)]_vars

====
